---- MODULE Spec2Model ----
(***************************************************************************)
(* Verification model of thehowl/diffy.                                    *)
(*                                                                         *)
(* Part I   cachedStorage (src/storage.go): the two-tier object store,     *)
(*          its single-flight Get, Put, Del, the cleaner goroutine and the *)
(*          background evict goroutines.  Specifications Spec, FairSpec,   *)
(*          SpecCold.                                                      *)
(* Part II  the diff engine (src/unnamed/part_004): lines, tgs and         *)
(*          DiffWithOptions, with the normalizers of src/pkg/http/serve.go.*)
(*          Specifications SpecDiff, SpecNorm, SpecSpace.                  *)
(* Part III the upload handler (src/pkg/http/http_test.go, Server.upload), *)
(*          the metadata database (src/unnamed/part_006) and the view      *)
(*          handlers (src/pkg/http/serve.go).  Specifications SpecLimit,   *)
(*          SpecUpload, SpecDB, SpecReset, SpecView.                       *)
(***************************************************************************)
EXTENDS Integers, Sequences, FiniteSets, TLC

\* ------------------------------------------------------------------------
\* Bounds of the model
\* ------------------------------------------------------------------------
maxSize == 20     \* cachedStorage.maxSize: the cap handed to newCachedStorage
MaxOps == 3       \* Get/Put/Del calls started in one behaviour
MaxFails == 1     \* backend calls that fail in one behaviour

Ids == {"a", "b"}
Procs == {"p1", "p2"}

\* A []byte of n bytes, every byte c.
Blob(c, n) == [i \in 1..n |-> c]
\* What permanent holds when the process starts: 10 bytes under "a", 20 under "b".
InitPermanent == [i \in Ids |-> IF i = "a" THEN Blob(1, 10) ELSE Blob(1, 20)]
\* The payloads handed to Put (other bytes than those permanent started with).
Data == {Blob(2, 20)}
\* No bytes: what bbolt's Get yields for a missing key.
NoBytes == <<>>

\* Stand-in for the 2^64 modulus of uint64: every quantity of the model is far
\* below it, so a wrapped difference compares exactly as it does in 64 bits.
Wrap == 2^30

ErrNotFound == "ErrNotFound"
ErrBackend == "ErrBackend"
Nil == "nil"

\* Descriptor handles (*cachedObject pointers); 0 is the nil pointer.
Handles == 1..(Cardinality(Ids) + Cardinality(Procs))

VARIABLES
  permanent,   \* cachedStorage.permanent: id -> bytes (NoBytes: absent)
  cache,       \* cachedStorage.cache: id -> bytes (NoBytes: absent)
  objects,     \* cachedStorage.objects: id -> handle (0: no entry)
  size,        \* cachedObject.size, per handle
  ready,       \* cachedObject.ready is closed, per handle
  lru,         \* handles of the map with a non-zero lastAccess, oldest first
  cleaning,    \* the cleaning channel (capacity 1) holds a signal
  cleaner,     \* the cleaner goroutine: [pc, sz]
  evictions,   \* evict goroutines not yet finished: [els, started, del],
               \* with the history [ins, fresh] of what came after the pass
  panicked,    \* a goroutine panicked: the process is gone
  pc,          \* per caller: position in Get / Put / Del
  arg,         \* per caller: [op, id, data]
  co,          \* per caller: the descriptor it holds (0: none)
  buf,         \* per caller: the bytes b it carries into cacheStore
  ret,         \* per caller: what the call returned, [err, b]
  opsLeft,     \* calls that may still start
  nfail,       \* backend failures so far
  expect,      \* history: per caller, what a Get must return (Unknown: anything)
  settled,     \* history: per id, the outcome of the last undisturbed Put/Del
  alone,       \* history: per caller, no other Put/Del of its id overlapped
  quiet,       \* history: per caller, its Get began with no resolved
               \*   descriptor of its id and only Gets touched that id since
  lastPass,    \* history: the last completed doClean, [done, sz, removed, left]
  held         \* history: per caller, permanent has held the id of its Get
               \*   since the Get began and no Del of that id overlapped it

cacheVars == <<permanent, cache, objects, size, ready, lru, cleaning, cleaner,
               evictions, panicked, pc, arg, co, buf, ret, opsLeft, nfail,
               expect, settled, alone, quiet, lastPass, held>>

\* The diff engine (Part II): one call of DiffWithOptions.
VARIABLES
  old,         \* the old file handed to DiffWithOptions
  new,         \* the new file
  opts,        \* Options: [Normal, Context]
  u,           \* the Unified it returned: [Hunks, panic]
  diffpc,      \* "call" before the call, "done" after it, "shown" at the end
  text         \* what Unified.String, hunk_header and SplitViewPaddings
               \* made of u

diffVars == <<old, new, opts, u, diffpc, text>>

\* The upload handler and the metadata database (Part III).
VARIABLES
  files,       \* bucket "files": short ID -> upload record (its Sum)
  stats,       \* bucket "stats": client -> the stored usage counter
  storage,     \* Server.Storage: short ID -> archive
  week,        \* the clock, as the number of the current 7-day period
  hpc,         \* per handler: position in Server.upload
  hreq,        \* per handler: the request, [client, form, arc]
  hresp,       \* per handler: the response, [code, location]
  reqLeft,     \* requests that may still arrive
  ufail,       \* backend calls of the handlers that failed so far
  history,     \* history: what the finished requests were answered, and
               \* per id the Location answered and the PutFile calls
  dbcall       \* history: the last AddAmountsAndCompare, [name, before, ...]

httpVars == <<files, stats, storage, week, hpc, hreq, hresp, reqLeft, ufail,
              history, dbcall>>

\* The instant of a rejected upload and the reset instant named in its body
VARIABLES
  now,         \* time.Now().UTC() of the upload, [year, yday]
  reset        \* resetTime as parsed back from the body, or NoTime

timeVars == <<now, reset>>

\* A GET of /{id}, /{id}/red or /{id}/green
VARIABLES
  vpc,         \* where the view handler is
  vreq,        \* its request, [route, id, browser]
  vfiles,      \* what getFiles returned to it so far
  vresp        \* its http.ResponseWriter, [code, header, body]

viewVars == <<vpc, vreq, vfiles, vresp>>

\* Two lines handed to a normalizer
VARIABLES
  sin,         \* the two lines, as lines hands them to opts.Normal
  sout,        \* what the normalizer returned for each
  spc          \* "call" before the calls, "done" after them

spaceVars == <<sin, sout, spc>>

vars == <<cacheVars, diffVars, httpVars, timeVars, viewVars, spaceVars>>

outsideCache == <<diffVars, httpVars, timeVars, viewVars, spaceVars>>
outsideDiff == <<cacheVars, httpVars, timeVars, viewVars, spaceVars>>
outsideHttp == <<cacheVars, diffVars, timeVars, viewVars, spaceVars>>
outsideTime == <<cacheVars, diffVars, httpVars, viewVars, spaceVars>>
outsideView == <<cacheVars, diffVars, timeVars, spaceVars>>
outsideSpace == <<cacheVars, diffVars, httpVars, timeVars, viewVars>>

\* ------------------------------------------------------------------------
\* Part II  the diff engine (package diff): values
\* ------------------------------------------------------------------------
MaxLines == 4     \* lines of a file
MaxContext == 2   \* Options.Context ranges over 0..MaxContext

\* A string is the sequence of its pieces; the lines the files are made of.
LineSet == {<<>>, <<"a">>, <<"b">>}
NoNewline == "\n\\ No newline at end of file"

RECURSIVE SeqsUpTo(_, _)
\* The sequences over S of length at most n.
SeqsUpTo(S, n) ==
  IF n = 0 THEN {<<>>}
  ELSE LET shorter == SeqsUpTo(S, n - 1)
       IN shorter \cup {Append(q, e) : q \in {t \in shorter : Len(t) = n - 1},
                                       e \in S}

\* A file ([]byte): its lines, and whether its last byte is "\n" (the empty
\* file counts as such).  Without a final "\n" there is a last line and it is
\* not empty.
Files ==
  {[lines |-> l, nl |-> b] : l \in SeqsUpTo(LineSet, MaxLines), b \in BOOLEAN}
    \ {f \in [lines : SeqsUpTo(LineSet, MaxLines), nl : {FALSE}] :
         f.lines = <<>> \/ f.lines[Len(f.lines)] = <<>>}

\* strings.Split(string(x), "\n")
Split(x) == IF x.nl THEN Append(x.lines, <<>>) ELSE x.lines

\* Options.Normal is nil.
NilNormal == "nil"

\* The diff engine at rest (the other specifications leave it there).
NoText == [String |-> <<>>, headers |-> <<>>, paddings |-> <<>>]
DiffIdle ==
  /\ old = [lines |-> <<>>, nl |-> TRUE]
  /\ new = [lines |-> <<>>, nl |-> TRUE]
  /\ opts = [Normal |-> NilNormal, Context |-> 0]
  /\ u = [Hunks |-> <<>>, panic |-> FALSE]
  /\ diffpc = "idle"
  /\ text = NoText

\* ------------------------------------------------------------------------
\* Part III  the upload handler and the metadata database: values
\* ------------------------------------------------------------------------
maxBodySize == 1048576      \* 1 << 20
maxBytesWeek == 2097152     \* (1 << 20) * 2
maxCallsWeek == 100

Handlers == {"h1", "h2"}
PublicURL == "https://diffy"
\* A multipart form without parts.
NoParts == [red |-> <<>>, green |-> <<>>, other |-> <<>>]
NoValues == [red |-> <<>>, green |-> <<>>, red_name |-> <<>>, green_name |-> <<>>]
NoForm == [parsed |-> FALSE, File |-> NoParts, Value |-> NoValues]
NoRequest == [client |-> "none", form |-> NoForm,
              arc |-> [id |-> 0, v |-> 0, size |-> 0]]
NoResponse == [code |-> 0, location |-> <<>>, dedup |-> FALSE, body |-> <<>>]
NoHistory == [n302 |-> 0, n429 |-> 0, other |-> 0, loc |-> <<>>,
              puts |-> <<>>, ok |-> {}]
NoCall == [called |-> FALSE, writers |-> <<>>]

\* A fresh server (empty buckets, empty storage) about to serve n requests.
HttpStart(n) ==
  /\ files = <<>>
  /\ stats = <<>>
  /\ storage = <<>>
  /\ week = 0
  /\ hpc = [h \in Handlers |-> "idle"]
  /\ hreq = [h \in Handlers |-> NoRequest]
  /\ hresp = [h \in Handlers |-> NoResponse]
  /\ reqLeft = n
  /\ ufail = 0
  /\ history = NoHistory
  /\ dbcall = NoCall

HttpIdle == HttpStart(0)

NoTime == [year |-> 0, month |-> 0, day |-> 0]
TimeIdle == now = [year |-> 0, yday |-> 0] /\ reset = NoTime

\* An http.ResponseWriter nothing was written to: no status, no body.
NewWriter == [code |-> 0, header |-> <<>>, body |-> <<>>]
NoView == [route |-> "none", id |-> 0, raw |-> FALSE, seen |-> {}]
SpaceIdle ==
  /\ sin = <<>>
  /\ sout = <<>>
  /\ spc = "idle"

ViewIdle ==
  /\ vpc = "idle"
  /\ vreq = NoView
  /\ vfiles = <<>>
  /\ vresp = NewWriter

\* ------------------------------------------------------------------------
\* dbStorage (the backend of both tiers)
\* ------------------------------------------------------------------------
\* dbStorage.Get: ErrNotFound when the stored value has length 0.
dbGet(store, id) ==
  IF Len(store[id]) = 0 THEN [err |-> ErrNotFound, b |-> NoBytes]
  ELSE [err |-> Nil, b |-> store[id]]

\* dbStorage.Put: overwrite.
dbPut(store, id, data) == [store EXCEPT ![id] = data]

\* dbStorage.Del: delete the key; a missing key is no error.
dbDel(store, id) == [store EXCEPT ![id] = NoBytes]

\* ------------------------------------------------------------------------
\* Helpers on the descriptor heap
\* ------------------------------------------------------------------------
RECURSIVE SumSeq(_)
SumSeq(s) == IF s = <<>> THEN 0 ELSE Head(s) + SumSeq(Tail(s))

RECURSIVE SetToSeqs(_)
\* Every ordering of a finite set.
SetToSeqs(S) ==
  IF S = {} THEN {<<>>}
  ELSE UNION {{<<x>> \o t : t \in SetToSeqs(S \ {x})} : x \in S}

InMap(objs) == {objs[i] : i \in Ids} \ {0}
Live(objs, cos) == InMap(objs) \cup ({cos[p] : p \in Procs} \ {0})

\* A fresh &cachedObject{}: the lowest handle nothing refers to.
NewHandle ==
  CHOOSE h \in Handles : h \notin Live(objects, co)
                         /\ \A g \in Handles : g \notin Live(objects, co) => h <= g

\* Garbage collection: a handle nothing refers to reads as a zero cachedObject.
Scrub(f, objs, cos, zero) ==
  [h \in Handles |-> IF h \in Live(objs, cos) THEN f[h] ELSE zero]
ScrubLru(l, objs) == SelectSeq(l, LAMBDA h : h \in InMap(objs))

\* x.lastAccess = time.Now(): h becomes the most recent of the map.
Touch(l, h) == Append(SelectSeq(l, LAMBDA g : g # h), h)

\* cachedStorage.cacheSize: the sum of the sizes of the map's descriptors.
cacheSize == SumSeq([k \in 1..Cardinality(InMap(objects)) |->
                      size[CHOOSE h \in InMap(objects) :
                             Cardinality({g \in InMap(objects) : g < h}) = k - 1]])

\* sync.RWMutex: doClean holds the write lock from its first loop to its end;
\* a started evict goroutine holds the read lock.
WriteLocked == cleaner.pc = "doCleanLoop"
ReadLocked == \E i \in DOMAIN evictions : evictions[i].started
\* c.Lock(), were evict to hold no lock.
CanLockNoReaders == ~WriteLocked
CanLock == ~WriteLocked /\ ~ReadLocked
CanRLock == ~WriteLocked

Mutating(p) == arg[p].op \in {"Put", "Del"}
OthersMutating(p, id) ==
  \E q \in Procs \ {p} : pc[q] \notin {"idle"} /\ Mutating(q) /\ arg[q].id = id

NoArg == [op |-> "none", id |-> "none", data |-> NoBytes]
NoRet == [err |-> "none", b |-> NoBytes]
\* History values: nothing known, or the bytes a Get must see (NoBytes: none).
Unknown == [known |-> FALSE, b |-> NoBytes]
Known(b) == [known |-> TRUE, b |-> b]

\* ------------------------------------------------------------------------
\* Init: newCachedStorage over a cache backend holding a subset of permanent
\* ------------------------------------------------------------------------
\* cache.List walks bbolt keys in ascending order.
IdOrder == <<"a", "b">>
HandleOfInit(warm, id) ==
  IF id \in warm THEN Cardinality({j \in warm : \E m, n \in 1..Len(IdOrder) :
                                     IdOrder[m] = j /\ IdOrder[n] = id /\ m <= n})
  ELSE 0

newCachedStorage(perm, warm) ==
  /\ permanent = perm
  /\ cache = [i \in Ids |-> IF i \in warm THEN perm[i] ELSE NoBytes]
  /\ objects = [i \in Ids |-> HandleOfInit(warm, i)]
  /\ size = [h \in Handles |->
               IF \E i \in warm : HandleOfInit(warm, i) = h
               THEN Len(perm[CHOOSE i \in warm : HandleOfInit(warm, i) = h])
               ELSE 0]
  /\ ready = [h \in Handles |-> \E i \in warm : HandleOfInit(warm, i) = h]
  /\ lru = [k \in 1..Cardinality(warm) |-> k]
  /\ cleaning = FALSE
  /\ cleaner = [pc |-> "recv", sz |-> 0]
  /\ evictions = <<>>
  /\ panicked = FALSE

CacheInit ==
  /\ \E warm \in SUBSET Ids : newCachedStorage(InitPermanent, warm)
  /\ pc = [p \in Procs |-> "idle"]
  /\ arg = [p \in Procs |-> NoArg]
  /\ co = [p \in Procs |-> 0]
  /\ buf = [p \in Procs |-> NoBytes]
  /\ ret = [p \in Procs |-> NoRet]
  /\ opsLeft = MaxOps
  /\ nfail = 0
  /\ expect = [p \in Procs |-> Unknown]
  /\ settled = [i \in Ids |-> Unknown]
  /\ alone = [p \in Procs |-> FALSE]
  /\ quiet = [p \in Procs |-> FALSE]
  /\ lastPass = [done |-> FALSE, sz |-> 0, removed |-> 0, left |-> 0]
  /\ held = [p \in Procs |-> FALSE]


\* ------------------------------------------------------------------------
\* History bookkeeping (no effect on the program's state)
\* ------------------------------------------------------------------------
InFlight(q) == pc[q] # "idle"

\* A Put or Del of id starts: nothing is settled about id any more.
MutationStarts(p, id) ==
  /\ settled' = [settled EXCEPT ![id] = Unknown]
  /\ expect' = [q \in Procs |->
                  IF q # p /\ InFlight(q) /\ arg[q].id = id THEN Unknown
                  ELSE IF q = p THEN Unknown ELSE expect[q]]
  /\ quiet' = [q \in Procs |->
                 IF InFlight(q) /\ arg[q].id = id THEN FALSE
                 ELSE IF q = p THEN FALSE ELSE quiet[q]]
  /\ alone' = [q \in Procs |->
                 IF q = p THEN ~OthersMutating(p, id)
                 ELSE IF InFlight(q) /\ arg[q].id = id THEN FALSE ELSE alone[q]]

\* A backend call fails.
BackendFails ==
  /\ nfail < MaxFails
  /\ nfail' = nfail + 1

\* ------------------------------------------------------------------------
\* Callers: the start of a call
\* ------------------------------------------------------------------------
StartGet(p) ==
  /\ ~panicked /\ pc[p] = "idle" /\ opsLeft > 0
  /\ \E id \in Ids :
       /\ arg' = [arg EXCEPT ![p] = [op |-> "Get", id |-> id, data |-> NoBytes]]
       /\ expect' = [expect EXCEPT ![p] = settled[id]]
       /\ quiet' = [quiet EXCEPT ![p] =
                       /\ ~OthersMutating(p, id)
                       /\ (objects[id] = 0 \/ ~ready[objects[id]])]
       /\ held' = [held EXCEPT ![p] =
                      /\ permanent[id] # NoBytes
                      /\ ~\E q \in Procs \ {p} :
                            InFlight(q) /\ arg[q].op = "Del" /\ arg[q].id = id]
  /\ pc' = [pc EXCEPT ![p] = "cacheHas"]
  /\ opsLeft' = opsLeft - 1
  /\ UNCHANGED outsideCache
  /\ UNCHANGED <<permanent, cache, objects, size, ready, lru, cleaning, cleaner,
                 evictions, panicked, co, buf, ret, nfail, settled, alone, lastPass>>

StartPut(p) ==
  /\ ~panicked /\ pc[p] = "idle" /\ opsLeft > 0
  /\ \E id \in Ids, d \in Data :
       /\ arg' = [arg EXCEPT ![p] = [op |-> "Put", id |-> id, data |-> d]]
       /\ MutationStarts(p, id)
  /\ pc' = [pc EXCEPT ![p] = "permPut"]
  /\ opsLeft' = opsLeft - 1
  /\ UNCHANGED outsideCache
  /\ UNCHANGED <<permanent, cache, objects, size, ready, lru, cleaning, cleaner,
                 evictions, panicked, co, buf, ret, nfail, lastPass, held>>

StartDel(p) ==
  /\ ~panicked /\ pc[p] = "idle" /\ opsLeft > 0
  /\ \E id \in Ids :
       /\ arg' = [arg EXCEPT ![p] = [op |-> "Del", id |-> id, data |-> NoBytes]]
       /\ MutationStarts(p, id)
       /\ held' = [q \in Procs |->
                      IF InFlight(q) /\ arg[q].id = id THEN FALSE ELSE held[q]]
  /\ pc' = [pc EXCEPT ![p] = "permDel"]
  /\ opsLeft' = opsLeft - 1
  /\ UNCHANGED outsideCache
  /\ UNCHANGED <<permanent, cache, objects, size, ready, lru, cleaning, cleaner,
                 evictions, panicked, co, buf, ret, nfail, lastPass>>

\* History of the evict goroutines: caller p has inserted a descriptor since
\* the pass.
Inserted(p) ==
  [i \in DOMAIN evictions |-> [evictions[i] EXCEPT !.ins = @ \cup {p}]]

\* History: caller p has written the payload of id in the cache backend.
Written(p, id) ==
  [i \in DOMAIN evictions |->
     [evictions[i] EXCEPT !.fresh = IF p \in evictions[i].ins THEN @ \cup {id}
                                    ELSE @ \ {id}]]

\* History: the payload of id has left the cache backend.
Deleted(ev, id) ==
  [i \in DOMAIN ev |-> [ev[i] EXCEPT !.fresh = @ \ {id}]]

\* History: the call of p is over.
Left(p) ==
  [i \in DOMAIN evictions |-> [evictions[i] EXCEPT !.ins = @ \ {p}]]

\* The call has returned; the caller drops what it held.
Return(p) ==
  /\ ~panicked /\ pc[p] = "ret"
  /\ pc' = [pc EXCEPT ![p] = "idle"]
  /\ settled' = IF Mutating(p) /\ alone[p] /\ ret[p].err = Nil
                THEN [settled EXCEPT ![arg[p].id] = Known(arg[p].data)]
                ELSE settled
  /\ arg' = [arg EXCEPT ![p] = NoArg]
  /\ co' = [co EXCEPT ![p] = 0]
  /\ buf' = [buf EXCEPT ![p] = NoBytes]
  /\ ret' = [ret EXCEPT ![p] = NoRet]
  /\ expect' = [expect EXCEPT ![p] = Unknown]
  /\ alone' = [alone EXCEPT ![p] = FALSE]
  /\ quiet' = [quiet EXCEPT ![p] = FALSE]
  /\ held' = [held EXCEPT ![p] = FALSE]
  /\ evictions' = Left(p)
  /\ size' = Scrub(size, objects, co', 0)
  /\ ready' = Scrub(ready, objects, co', FALSE)
  /\ UNCHANGED outsideCache
  /\ UNCHANGED <<permanent, cache, objects, lru, cleaning, cleaner,
                 panicked, opsLeft, nfail, lastPass>>

\* ------------------------------------------------------------------------
\* cachedStorage.cacheHas and cachedObject.access
\* ------------------------------------------------------------------------
\* access: TryLock on lastAccessM fails while doClean holds it (it locks every
\* descriptor of the map in its first loop), and then nothing is written.
access(h) ==
  IF h \in InMap(objects) /\ ~WriteLocked THEN Touch(lru, h) ELSE lru

\* cacheHas, the map lookup under the read lock.
cacheHasLookup(p) ==
  /\ ~panicked /\ pc[p] = "cacheHas" /\ CanRLock
  /\ IF objects[arg[p].id] = 0
     THEN /\ pc' = [pc EXCEPT ![p] = "getLock"]
          /\ co' = co
     ELSE /\ pc' = [pc EXCEPT ![p] = "cacheHasReady"]
          /\ co' = [co EXCEPT ![p] = objects[arg[p].id]]
  /\ UNCHANGED outsideCache
  /\ UNCHANGED <<permanent, cache, objects, size, ready, lru, cleaning, cleaner,
                 evictions, panicked, arg, buf, ret, opsLeft, nfail, expect,
                 settled, alone, quiet, lastPass, held>>

\* cacheHas, <-obj.ready and what follows it.
cacheHasReady(p) ==
  /\ ~panicked /\ pc[p] = "cacheHasReady" /\ ready[co[p]]
  /\ IF size[co[p]] = 0
     THEN /\ pc' = [pc EXCEPT ![p] = "getLock"]
          /\ co' = [co EXCEPT ![p] = 0]
          /\ lru' = lru
     ELSE /\ pc' = [pc EXCEPT ![p] = "fastGet"]
          /\ co' = co
          /\ lru' = access(co[p])
  /\ size' = Scrub(size, objects, co', 0)
  /\ ready' = Scrub(ready, objects, co', FALSE)
  /\ UNCHANGED outsideCache
  /\ UNCHANGED <<permanent, cache, objects, cleaning, cleaner, evictions,
                 panicked, arg, buf, ret, opsLeft, nfail, expect, settled,
                 alone, quiet, lastPass, held>>

\* ------------------------------------------------------------------------
\* cachedStorage.Get
\* ------------------------------------------------------------------------
\* The fast path, and the waiter's read: return c.cache.Get(ctx, id).
GetFromCache(p) ==
  /\ ~panicked /\ pc[p] \in {"fastGet", "waitGet"}
  /\ ret' = [ret EXCEPT ![p] = dbGet(cache, arg[p].id)]
  /\ pc' = [pc EXCEPT ![p] = "ret"]
  /\ UNCHANGED outsideCache
  /\ UNCHANGED <<permanent, cache, objects, size, ready, lru, cleaning, cleaner,
                 evictions, panicked, arg, co, buf, opsLeft, nfail, expect,
                 settled, alone, quiet, lastPass, held>>

\* c.Lock(): adopt the map's descriptor, or insert ours.
GetLock(p) ==
  /\ ~panicked /\ pc[p] = "getLock" /\ CanLock
  /\ IF objects[arg[p].id] # 0
     THEN /\ co' = [co EXCEPT ![p] = objects[arg[p].id]]
          /\ objects' = objects
          /\ evictions' = evictions
          /\ pc' = [pc EXCEPT ![p] = "getWait"]
     ELSE /\ co' = [co EXCEPT ![p] = NewHandle]
          /\ objects' = [objects EXCEPT ![arg[p].id] = NewHandle]
          /\ evictions' = Inserted(p)
          /\ pc' = [pc EXCEPT ![p] = "permGet"]
  /\ UNCHANGED outsideCache
  /\ UNCHANGED <<permanent, cache, size, ready, lru, cleaning, cleaner,
                 panicked, arg, buf, ret, opsLeft, nfail, expect,
                 settled, alone, quiet, lastPass, held>>

\* !ours: <-co.ready, then co.size decides.
GetWait(p) ==
  /\ ~panicked /\ pc[p] = "getWait" /\ ready[co[p]]
  /\ IF size[co[p]] > 0
     THEN /\ pc' = [pc EXCEPT ![p] = "waitGet"]
          /\ ret' = ret
     ELSE /\ pc' = [pc EXCEPT ![p] = "ret"]
          /\ ret' = [ret EXCEPT ![p] = [err |-> ErrNotFound, b |-> NoBytes]]
  /\ UNCHANGED outsideCache
  /\ UNCHANGED <<permanent, cache, objects, size, ready, lru, cleaning, cleaner,
                 evictions, panicked, arg, co, buf, opsLeft, nfail, expect,
                 settled, alone, quiet, lastPass, held>>

\* ours: b, err := c.permanent.Get(ctx, id); on an error the deferred
\* close(co.ready) runs and the error is returned.
PermGet(p) ==
  /\ ~panicked /\ pc[p] = "permGet"
  /\ LET r == dbGet(permanent, arg[p].id) IN
       IF r.err # Nil
       THEN /\ ready' = [ready EXCEPT ![co[p]] = TRUE]
            /\ ret' = [ret EXCEPT ![p] = r]
            /\ buf' = buf
            /\ pc' = [pc EXCEPT ![p] = "ret"]
       ELSE /\ buf' = [buf EXCEPT ![p] = r.b]
            /\ pc' = [pc EXCEPT ![p] = "cachePut"]
            /\ UNCHANGED <<ready, ret>>
  /\ UNCHANGED outsideCache
  /\ UNCHANGED <<permanent, cache, objects, size, lru, cleaning, cleaner,
                 evictions, panicked, arg, co, opsLeft, nfail, expect, settled,
                 alone, quiet, lastPass, held>>

\* permanent.Get fails with an error of the backend.
PermGetFails(p) ==
  /\ ~panicked /\ pc[p] = "permGet"
  /\ BackendFails
  /\ ready' = [ready EXCEPT ![co[p]] = TRUE]
  /\ ret' = [ret EXCEPT ![p] = [err |-> ErrBackend, b |-> NoBytes]]
  /\ pc' = [pc EXCEPT ![p] = "ret"]
  /\ UNCHANGED outsideCache
  /\ UNCHANGED <<permanent, cache, objects, size, lru, cleaning, cleaner,
                 evictions, panicked, arg, co, buf, opsLeft, expect, settled,
                 alone, quiet, lastPass, held>>

\* What Get and Put return once cacheStore is over.
AfterStore(p) ==
  IF arg[p].op = "Get" THEN [err |-> Nil, b |-> buf[p]]
  ELSE [err |-> Nil, b |-> NoBytes]

\* ------------------------------------------------------------------------
\* cachedStorage.cacheStore (called by Get's owner and by Put)
\* ------------------------------------------------------------------------
\* c.cache.Put(ctx, id, b)
CachePut(p) ==
  /\ ~panicked /\ pc[p] = "cachePut"
  /\ cache' = dbPut(cache, arg[p].id, buf[p])
  /\ evictions' = Written(p, arg[p].id)
  /\ pc' = [pc EXCEPT ![p] = "setLastAccess"]
  /\ UNCHANGED outsideCache
  /\ UNCHANGED <<permanent, objects, size, ready, lru, cleaning, cleaner,
                 panicked, arg, co, buf, ret, opsLeft, nfail, expect,
                 settled, alone, quiet, lastPass, held>>

\* c.cache.Put fails: logged, cacheStore returns; the caller's deferred
\* close(co.ready) runs and the caller returns.
CachePutFails(p) ==
  /\ ~panicked /\ pc[p] = "cachePut"
  /\ BackendFails
  /\ ready' = [ready EXCEPT ![co[p]] = TRUE]
  /\ ret' = [ret EXCEPT ![p] = AfterStore(p)]
  /\ pc' = [pc EXCEPT ![p] = "ret"]
  /\ UNCHANGED outsideCache
  /\ UNCHANGED <<permanent, cache, objects, size, lru, cleaning, cleaner,
                 evictions, panicked, arg, co, buf, opsLeft, expect, settled,
                 alone, quiet, lastPass, held>>

\* x.lastAccess = time.Now()   (no lock is held)
SetLastAccess(p) ==
  /\ ~panicked /\ pc[p] = "setLastAccess"
  /\ lru' = IF co[p] \in InMap(objects) THEN Touch(lru, co[p]) ELSE lru
  /\ pc' = [pc EXCEPT ![p] = "setSize"]
  /\ UNCHANGED outsideCache
  /\ UNCHANGED <<permanent, cache, objects, size, ready, cleaning, cleaner,
                 evictions, panicked, arg, co, buf, ret, opsLeft, nfail, expect,
                 settled, alone, quiet, lastPass, held>>

\* x.size = uint64(len(b))   (no lock is held)
SetSize(p) ==
  /\ ~panicked /\ pc[p] = "setSize"
  /\ size' = [size EXCEPT ![co[p]] = Len(buf[p])]
  /\ pc' = [pc EXCEPT ![p] = "signal"]
  /\ UNCHANGED outsideCache
  /\ UNCHANGED <<permanent, cache, objects, ready, lru, cleaning, cleaner,
                 evictions, panicked, arg, co, buf, ret, opsLeft, nfail, expect,
                 settled, alone, quiet, lastPass, held>>

\* select { case c.cleaning <- struct{}{}: default: }, then the caller's
\* deferred close(co.ready) and its return.
Signal(p) ==
  /\ ~panicked /\ pc[p] = "signal"
  /\ cleaning' = TRUE
  /\ ready' = [ready EXCEPT ![co[p]] = TRUE]
  /\ ret' = [ret EXCEPT ![p] = AfterStore(p)]
  /\ pc' = [pc EXCEPT ![p] = "ret"]
  /\ UNCHANGED outsideCache
  /\ UNCHANGED <<permanent, cache, objects, size, lru, cleaner, evictions,
                 panicked, arg, co, buf, opsLeft, nfail, expect, settled, alone,
                 quiet, lastPass, held>>

\* ------------------------------------------------------------------------
\* cachedStorage.Put
\* ------------------------------------------------------------------------
\* c.permanent.Put(ctx, id, data)
PermPut(p) ==
  /\ ~panicked /\ pc[p] = "permPut"
  /\ permanent' = dbPut(permanent, arg[p].id, arg[p].data)
  /\ pc' = [pc EXCEPT ![p] = "putLock"]
  /\ UNCHANGED outsideCache
  /\ UNCHANGED <<cache, objects, size, ready, lru, cleaning, cleaner, evictions,
                 panicked, arg, co, buf, ret, opsLeft, nfail, expect, settled,
                 alone, quiet, lastPass, held>>

\* permanent.Put or permanent.Del fails: the error is returned.
PermWriteFails(p) ==
  /\ ~panicked /\ pc[p] \in {"permPut", "permDel"}
  /\ BackendFails
  /\ ret' = [ret EXCEPT ![p] = [err |-> ErrBackend, b |-> NoBytes]]
  /\ pc' = [pc EXCEPT ![p] = "ret"]
  /\ UNCHANGED outsideCache
  /\ UNCHANGED <<permanent, cache, objects, size, ready, lru, cleaning, cleaner,
                 evictions, panicked, arg, co, buf, opsLeft, expect, settled,
                 alone, quiet, lastPass, held>>

\* c.Lock(); c.objects[id] = co; c.Unlock()
PutLock(p) ==
  /\ ~panicked /\ pc[p] = "putLock" /\ CanLock
  /\ co' = [co EXCEPT ![p] = NewHandle]
  /\ objects' = [objects EXCEPT ![arg[p].id] = NewHandle]
  /\ buf' = [buf EXCEPT ![p] = arg[p].data]
  /\ lru' = ScrubLru(lru, objects')
  /\ size' = Scrub(size, objects', co', 0)
  /\ ready' = Scrub(ready, objects', co', FALSE)
  /\ evictions' = Inserted(p)
  /\ pc' = [pc EXCEPT ![p] = "cachePut"]
  /\ UNCHANGED outsideCache
  /\ UNCHANGED <<permanent, cache, cleaning, cleaner, panicked, arg,
                 ret, opsLeft, nfail, expect, settled, alone, quiet, lastPass, held>>

\* ------------------------------------------------------------------------
\* cachedStorage.Del
\* ------------------------------------------------------------------------
\* Del that forgets the permanent tier: the record survives there.
PermDelSkipped(p) ==
  /\ ~panicked /\ pc[p] = "permDel"
  /\ pc' = [pc EXCEPT ![p] = "delLock"]
  /\ UNCHANGED outsideCache
  /\ UNCHANGED <<permanent, cache, objects, size, ready, lru, cleaning, cleaner,
                 evictions, panicked, arg, co, buf, ret, opsLeft, nfail, expect,
                 settled, alone, quiet, lastPass, held>>

\* c.permanent.Del(ctx, id)
PermDel(p) ==
  /\ ~panicked /\ pc[p] = "permDel"
  /\ permanent' = dbDel(permanent, arg[p].id)
  /\ pc' = [pc EXCEPT ![p] = "delLock"]
  /\ UNCHANGED outsideCache
  /\ UNCHANGED <<cache, objects, size, ready, lru, cleaning, cleaner, evictions,
                 panicked, arg, co, buf, ret, opsLeft, nfail, expect, settled,
                 alone, quiet, lastPass, held>>

\* c.Lock(); _, exist := c.objects[id]; delete(c.objects, id); c.Unlock()
DelLock(p) ==
  /\ ~panicked /\ pc[p] = "delLock" /\ CanLock
  /\ objects' = [objects EXCEPT ![arg[p].id] = 0]
  /\ lru' = ScrubLru(lru, objects')
  /\ size' = Scrub(size, objects', co, 0)
  /\ ready' = Scrub(ready, objects', co, FALSE)
  /\ IF objects[arg[p].id] = 0
     THEN /\ pc' = [pc EXCEPT ![p] = "ret"]
          /\ ret' = [ret EXCEPT ![p] = [err |-> Nil, b |-> NoBytes]]
     ELSE /\ pc' = [pc EXCEPT ![p] = "cacheDel"]
          /\ ret' = ret
  /\ UNCHANGED outsideCache
  /\ UNCHANGED <<permanent, cache, cleaning, cleaner, evictions, panicked, arg,
                 co, buf, opsLeft, nfail, expect, settled, alone, quiet,
                 lastPass, held>>

\* c.cache.Del(ctx, id); return nil
CacheDel(p) ==
  /\ ~panicked /\ pc[p] = "cacheDel"
  /\ cache' = dbDel(cache, arg[p].id)
  /\ evictions' = Deleted(evictions, arg[p].id)
  /\ ret' = [ret EXCEPT ![p] = [err |-> Nil, b |-> NoBytes]]
  /\ pc' = [pc EXCEPT ![p] = "ret"]
  /\ UNCHANGED outsideCache
  /\ UNCHANGED <<permanent, objects, size, ready, lru, cleaning, cleaner,
                 panicked, arg, co, buf, opsLeft, nfail, expect,
                 settled, alone, quiet, lastPass, held>>

\* c.cache.Del fails: logged and swallowed, Del returns nil.
CacheDelFails(p) ==
  /\ ~panicked /\ pc[p] = "cacheDel"
  /\ BackendFails
  /\ ret' = [ret EXCEPT ![p] = [err |-> Nil, b |-> NoBytes]]
  /\ pc' = [pc EXCEPT ![p] = "ret"]
  /\ UNCHANGED outsideCache
  /\ UNCHANGED <<permanent, cache, objects, size, ready, lru, cleaning, cleaner,
                 evictions, panicked, arg, co, buf, opsLeft, expect, settled,
                 alone, quiet, lastPass, held>>


\* ------------------------------------------------------------------------
\* The cleaner goroutine: cachedStorage.cleaner and cachedStorage.doClean
\* ------------------------------------------------------------------------
U64(x) == x % Wrap

\* The target without the 5% leeway.
collectTargetNoLeeway(sz) == U64(sz - maxSize)

\* collectTarget := (sz - c.maxSize) + c.maxSize/20, in uint64
collectTarget(sz) == U64(U64(sz - maxSize) + maxSize \div 20)

\* The id under which the map holds descriptor h (obj.id).
IdOf(objs, h) == CHOOSE i \in Ids : objs[i] = h

\* The descriptors of the map in any order, as without slices.SortFunc.
SortedObjectsAnyOrder == SetToSeqs(InMap(objects))

\* slices.SortFunc by lastAccess: the descriptors whose lastAccess is still
\* the zero time come first, in any order; then the others, oldest first.
SortedObjects ==
  LET zs == InMap(objects) \ {lru[k] : k \in DOMAIN lru}
  IN {z \o lru : z \in SetToSeqs(zs)}

RECURSIVE collect(_, _, _, _, _)
\* The second loop of doClean over the sorted descriptors, from index i
\* (1-based here, i-1 in the source).  del is nil throughout the loop, so
\* del = del[:i-1] panics (slice bounds out of range, capacity 0) unless i-1 = 0.
collect(objs, i, target, collected, removed) ==
  IF i > Len(objs)
  THEN [collected |-> collected, removed |-> removed, panic |-> FALSE]
  ELSE IF collected >= target
       THEN IF i - 1 > 0
            THEN [collected |-> collected, removed |-> removed, panic |-> TRUE]
            ELSE collect(objs, i + 1, target, collected, removed)
       ELSE collect(objs, i + 1, target, collected + size[objs[i]],
                    removed \cup {objs[i]})

\* for range c.cleaning: a signal is received.
CleanerRecv ==
  /\ ~panicked /\ cleaner.pc = "recv" /\ cleaning
  /\ cleaning' = FALSE
  /\ cleaner' = [cleaner EXCEPT !.pc = "cacheSize"]
  /\ UNCHANGED outsideCache
  /\ UNCHANGED <<permanent, cache, objects, size, ready, lru, evictions,
                 panicked, pc, arg, co, buf, ret, opsLeft, nfail, expect,
                 settled, alone, quiet, lastPass, held>>

\* sz := c.cacheSize(); if sz >= c.maxSize { c.doClean() }; time.Sleep
CleanerSize ==
  /\ ~panicked /\ cleaner.pc = "cacheSize" /\ CanRLock
  /\ cleaner' = [cleaner EXCEPT !.pc = IF cacheSize >= maxSize THEN "doClean"
                                       ELSE "recv"]
  /\ UNCHANGED outsideCache
  /\ UNCHANGED <<permanent, cache, objects, size, ready, lru, cleaning,
                 evictions, panicked, pc, arg, co, buf, ret, opsLeft, nfail,
                 expect, settled, alone, quiet, lastPass, held>>

\* doClean: c.Lock() and the first loop, which sums the sizes (and locks every
\* descriptor's lastAccessM).
doCleanSum ==
  /\ ~panicked /\ cleaner.pc = "doClean" /\ CanLock
  /\ cleaner' = [pc |-> "doCleanLoop", sz |-> cacheSize]
  /\ UNCHANGED outsideCache
  /\ UNCHANGED <<permanent, cache, objects, size, ready, lru, cleaning,
                 evictions, panicked, pc, arg, co, buf, ret, opsLeft, nfail,
                 expect, settled, alone, quiet, lastPass, held>>

\* doClean: the sort, the second loop, del = objects when del is nil,
\* go c.evict(del), and the deferred c.Unlock().
doCleanLoop ==
  /\ ~panicked /\ cleaner.pc = "doCleanLoop"
  /\ \E objs \in SortedObjects :
       LET r == collect(objs, 1, collectTarget(cleaner.sz), 0, {})
           kept == [i \in Ids |-> IF objects[i] \in r.removed THEN 0
                                  ELSE objects[i]]
           del == [k \in 1..Len(objs) |-> IdOf(objects, objs[k])]
       IN /\ objects' = kept
          /\ lru' = ScrubLru(lru, kept)
          /\ size' = Scrub(size, kept, co, 0)
          /\ ready' = Scrub(ready, kept, co, FALSE)
          /\ IF r.panic
             THEN /\ panicked' = TRUE
                  /\ UNCHANGED <<cleaner, evictions, lastPass>>
             ELSE /\ panicked' = FALSE
                  /\ cleaner' = [pc |-> "recv", sz |-> 0]
                  /\ evictions' = IF Len(del) = 0 THEN evictions
                                  ELSE Append(evictions,
                                              [els |-> del, started |-> FALSE,
                                               del |-> FALSE, ins |-> {},
                                               fresh |-> {}])
                  /\ lastPass' = [done |-> TRUE, sz |-> cleaner.sz,
                                  removed |-> Cardinality(r.removed),
                                  left |-> SumSeq([k \in 1..Len(objs) |->
                                             IF objs[k] \in r.removed THEN 0
                                             ELSE size[objs[k]]])]
  /\ UNCHANGED outsideCache
  /\ UNCHANGED <<permanent, cache, cleaning, pc, arg, co, buf, ret, opsLeft,
                 nfail, expect, settled, alone, quiet, held>>

\* ------------------------------------------------------------------------
\* cachedStorage.evict, one goroutine per completed doClean
\* ------------------------------------------------------------------------
RemoveAt(s, i) == [k \in 1..(Len(s) - 1) |-> IF k < i THEN s[k] ELSE s[k + 1]]

\* The evict goroutine i goes on to the next element of els, or ends.
EvictNext(i) ==
  IF Len(evictions[i].els) = 1 THEN RemoveAt(evictions, i)
  ELSE [evictions EXCEPT ![i].els = Tail(@), ![i].started = TRUE,
                         ![i].del = FALSE]

\* One turn of evict's loop, up to the test of c.objects[el.id]; the read
\* lock is held from the first turn to the last.
evict(i) ==
  /\ ~panicked /\ i \in DOMAIN evictions
  /\ ~evictions[i].del
  /\ evictions[i].started \/ CanRLock
  /\ evictions' = IF objects[Head(evictions[i].els)] # 0 THEN EvictNext(i)
                  ELSE [evictions EXCEPT ![i].started = TRUE, ![i].del = TRUE]
  /\ UNCHANGED outsideCache
  /\ UNCHANGED <<permanent, cache, objects, size, ready, lru, cleaning, cleaner,
                 panicked, pc, arg, co, buf, ret, opsLeft, nfail, expect,
                 settled, alone, quiet, lastPass, held>>

\* The rest of the turn: c.cache.Del(context.Background(), el.id).
evictDel(i) ==
  /\ ~panicked /\ i \in DOMAIN evictions
  /\ evictions[i].del
  /\ cache' = dbDel(cache, Head(evictions[i].els))
  /\ evictions' = Deleted(EvictNext(i), Head(evictions[i].els))
  /\ UNCHANGED outsideCache
  /\ UNCHANGED <<permanent, objects, size, ready, lru, cleaning, cleaner,
                 panicked, pc, arg, co, buf, ret, opsLeft, nfail, expect,
                 settled, alone, quiet, lastPass, held>>

\* ------------------------------------------------------------------------
\* Specification of the cached storage
\* ------------------------------------------------------------------------
Caller(p) ==
  \/ StartGet(p) \/ StartPut(p) \/ StartDel(p) \/ Return(p)
  \/ cacheHasLookup(p) \/ cacheHasReady(p) \/ GetFromCache(p) \/ GetLock(p)
  \/ GetWait(p) \/ PermGet(p) \/ PermGetFails(p)
  \/ CachePut(p) \/ CachePutFails(p) \/ SetLastAccess(p) \/ SetSize(p)
  \/ Signal(p)
  \/ PermPut(p) \/ PermWriteFails(p) \/ PutLock(p)
  \/ PermDel(p) \/ DelLock(p) \/ CacheDel(p) \/ CacheDelFails(p)

Cleaner == CleanerRecv \/ CleanerSize \/ doCleanSum \/ doCleanLoop

Evict == \E i \in DOMAIN evictions : evict(i) \/ evictDel(i)

Init == CacheInit /\ DiffIdle /\ HttpIdle /\ TimeIdle
  /\ ViewIdle /\ SpaceIdle

Next ==
  \/ \E p \in Procs : Caller(p)
  \/ Cleaner
  \/ Evict

Spec == Init /\ [][Next]_vars

\* ------------------------------------------------------------------------
\* Properties of the cached storage (specification Spec)
\* ------------------------------------------------------------------------
\* The caller is the owner of its Get: it inserted the descriptor and is
\* between c.Unlock() and its return (permanent.Get, cacheStore).
Owner(p) ==
  /\ arg[p].op = "Get"
  /\ pc[p] \in {"permGet", "cachePut", "setLastAccess", "setSize", "signal"}

\* A Get that began with no resolved descriptor of its id, with only Gets
\* touching that id since, no backend failure, and the id in permanent.
QuietGet(p) ==
  /\ arg[p].op = "Get" /\ quiet[p] /\ nfail = 0
  /\ permanent[arg[p].id] # NoBytes

\* C1: concurrent Gets of an id that has no descriptor and is present in
\* permanent, with no Put or Del of that id and no backend failure, share one
\* permanent.Get (no two of them are owners together), and each of them
\* returns the bytes permanent holds.
C1_SingleFlight ==
  \A p \in Procs :
    QuietGet(p) =>
      /\ \A q \in Procs \ {p} :
           QuietGet(q) /\ arg[q].id = arg[p].id => ~(Owner(p) /\ Owner(q))
      /\ pc[p] = "ret" => ret[p] = [err |-> Nil, b |-> permanent[arg[p].id]]

\* A Get has returned that began after a Put or Del of its id had returned
\* nil, no other Put or Del of that id having overlapped or followed it.
GetAfterSettled(p) ==
  /\ pc[p] = "ret" /\ arg[p].op = "Get" /\ expect[p].known

\* C2: once Put(id, data) has returned nil, a Get(id) that begins afterwards,
\* with no Put or Del of id in between, returns exactly data (stated for the
\* runs in which no backend call failed and no eviction pass ran).
C2_GetAfterPut ==
  \A p \in Procs :
    GetAfterSettled(p) /\ expect[p].b # NoBytes /\ nfail = 0 /\ ~lastPass.done
      => ret[p] = [err |-> Nil, b |-> expect[p].b]

\* C6: once Del(id) has returned nil, a Get(id) that begins afterwards, with
\* no Put of id in between, does not return bytes: it returns ErrNotFound (or
\* the error of a failing permanent backend).
C6_DelThenGet ==
  \A p \in Procs :
    GetAfterSettled(p) /\ expect[p].b = NoBytes
      => /\ ret[p].err # Nil
         /\ ret[p].err # ErrBackend => ret[p].err = ErrNotFound

\* A Get after a Del found a payload still lying in the cache backend and
\* answered ErrNotFound all the same.
C6_Witness ==
  \E p \in Procs :
    /\ GetAfterSettled(p) /\ expect[p].b = NoBytes
    /\ ret[p].err = ErrNotFound
    /\ cache[arg[p].id] # NoBytes

\* C7: every descriptor of the map is either in flight (size 0, readiness
\* unresolved) or fully stored (size > 0, readiness resolved).
C7_DescriptorStates ==
  \A i \in Ids :
    objects[i] # 0 =>
      \/ size[objects[i]] = 0 /\ ~ready[objects[i]]
      \/ size[objects[i]] > 0 /\ ready[objects[i]]

\* C8: after every eviction pass that started with a sum of sizes of at least
\* the cap, the sizes of the descriptors left in the map sum to at most
\* cap - cap/20.
C8_PassReachesTarget ==
  lastPass.done /\ lastPass.sz >= maxSize
    => lastPass.left <= maxSize - maxSize \div 20

\* A pass that started at or above the cap has completed and removed
\* descriptors.
C8_Witness ==
  lastPass.done /\ lastPass.sz >= maxSize /\ lastPass.removed > 0

\* ------------------------------------------------------------------------
\* Puts of distinct keys into a cold cache, under fair scheduling
\* (specification FairSpec)
\* ------------------------------------------------------------------------
\* The payloads of those Puts: half the cap and the whole cap.
PutData == {Blob(2, maxSize \div 2), Blob(2, maxSize)}

\* Put(id, d) of a key no Put has been given yet.
StartPutDistinct(p) ==
  /\ ~panicked /\ pc[p] = "idle" /\ opsLeft > 0
  /\ \E id \in Ids, d \in PutData :
       /\ permanent[id] = InitPermanent[id]
       /\ \A q \in Procs : arg[q].id # id
       /\ arg' = [arg EXCEPT ![p] = [op |-> "Put", id |-> id, data |-> d]]
       /\ MutationStarts(p, id)
  /\ pc' = [pc EXCEPT ![p] = "permPut"]
  /\ opsLeft' = opsLeft - 1
  /\ UNCHANGED outsideCache
  /\ UNCHANGED <<permanent, cache, objects, size, ready, lru, cleaning, cleaner,
                 evictions, panicked, co, buf, ret, nfail, lastPass, held>>

\* The steps of a Put once it has started (no backend fails).
PutSteps(p) ==
  \/ PermPut(p) \/ PutLock(p) \/ CachePut(p) \/ SetLastAccess(p) \/ SetSize(p)
  \/ Signal(p) \/ Return(p)

\* The cached storage at rest: a cold cache, no call under way.
CacheCold ==
  /\ newCachedStorage(InitPermanent, {})
  /\ pc = [p \in Procs |-> "idle"]
  /\ arg = [p \in Procs |-> NoArg]
  /\ co = [p \in Procs |-> 0]
  /\ buf = [p \in Procs |-> NoBytes]
  /\ ret = [p \in Procs |-> NoRet]
  /\ opsLeft = MaxOps
  /\ nfail = 0
  /\ expect = [p \in Procs |-> Unknown]
  /\ settled = [i \in Ids |-> Unknown]
  /\ alone = [p \in Procs |-> FALSE]
  /\ quiet = [p \in Procs |-> FALSE]
  /\ lastPass = [done |-> FALSE, sz |-> 0, removed |-> 0, left |-> 0]
  /\ held = [p \in Procs |-> FALSE]

FairInit == CacheCold /\ DiffIdle /\ HttpIdle /\ TimeIdle
  /\ ViewIdle /\ SpaceIdle

FairNext ==
  \/ \E p \in Procs : StartPutDistinct(p)
  \/ \E p \in Procs : PutSteps(p)
  \/ Cleaner
  \/ Evict

\* The Go scheduler runs every runnable goroutine: the callers inside Put, the
\* cleaner and the evict goroutines all keep taking steps.
FairSpec ==
  /\ FairInit /\ [][FairNext]_vars
  /\ \A p \in Procs : WF_vars(PutSteps(p))
  /\ WF_vars(Cleaner)
  /\ WF_vars(Evict)

\* The bytes the Puts so far have stored.
PutTotal ==
  SumSeq([k \in 1..Len(IdOrder) |->
            IF permanent[IdOrder[k]] = InitPermanent[IdOrder[k]] THEN 0
            ELSE Len(permanent[IdOrder[k]])])

\* Puts of distinct keys whose sizes sum to more than the cap have all returned.
PutsOver ==
  /\ PutTotal > maxSize
  /\ \A p \in Procs : pc[p] = "idle"

\* C9: after Puts of distinct keys whose total size exceeds the cap, with
\* nothing else going on, the storage eventually runs with the sum of the
\* sizes of the map's descriptors at or below the cap.
C9_EventuallyUnderCap ==
  PutsOver ~> (~panicked /\ cacheSize <= maxSize)

\* ------------------------------------------------------------------------
\* Part II  the diff engine (package diff): lines, tgs, DiffWithOptions
\* ------------------------------------------------------------------------
\* Go's s[lo:hi] of a slice, indexes counted from 0.
Slice(q, lo, hi) == SubSeq(q, lo + 1, hi)
\* s[lo:hi] does not panic.
SliceOK(q, lo, hi) == 0 <= lo /\ lo <= hi /\ hi <= Len(q)

\* unicode.IsSpace over the characters of the model, and isSpaceNotNewline.
IsSpace(c) == c \in {" ", "\t", "\n"}
isSpaceNotNewline(c) == IsSpace(c) /\ c # "\n"

\* The characters of a display line: the message about the missing newline
\* is the text "\n\\ No newline at end of file".
RECURSIVE Chars(_)
Chars(str) ==
  IF str = <<>> THEN <<>>
  ELSE (IF Head(str) = NoNewline
        THEN <<"\n", "\\", " ", "No", " ", "newline">>
        ELSE <<Head(str)>>) \o Chars(Tail(str))

RECURSIVE TrimLeft(_)
TrimLeft(str) ==
  IF str # <<>> /\ IsSpace(Head(str)) THEN TrimLeft(Tail(str)) ELSE str

RECURSIVE TrimRight(_)
\* strings.TrimRightFunc(s, unicode.IsSpace)
TrimRight(str) ==
  IF str # <<>> /\ IsSpace(str[Len(str)])
  THEN TrimRight(SubSeq(str, 1, Len(str) - 1)) ELSE str

\* strings.TrimSpace(s)
TrimSpace(str) == TrimLeft(TrimRight(str))

\* func ignoreAllSpace(s string) string
ignoreAllSpace(str) ==
  SelectSeq(TrimSpace(str), LAMBDA c : ~isSpaceNotNewline(c))

RECURSIVE FieldsFunc(_, _, _)
\* strings.FieldsFunc(s, isSpaceNotNewline): the maximal runs of characters
\* that are no separator; cur is the run being read, acc the runs read.
FieldsFunc(str, cur, acc) ==
  IF str = <<>> THEN (IF cur = <<>> THEN acc ELSE Append(acc, cur))
  ELSE IF isSpaceNotNewline(Head(str))
       THEN FieldsFunc(Tail(str), <<>>,
                       IF cur = <<>> THEN acc ELSE Append(acc, cur))
       ELSE FieldsFunc(Tail(str), Append(cur, Head(str)), acc)

RECURSIVE Join(_, _)
\* strings.Join(flds, sep)
Join(flds, sep) ==
  IF flds = <<>> THEN <<>>
  ELSE IF Len(flds) = 1 THEN flds[1]
       ELSE flds[1] \o sep \o Join(Tail(flds), sep)

\* ignoreSpaceChange, were the fields of s joined with nothing kept of the
\* white space that leads the line.
ignoreSpaceChangeFields(str) ==
  Join(FieldsFunc(TrimRight(str), <<>>, <<>>), <<" ">>)

\* func ignoreSpaceChange(s string) string
ignoreSpaceChange(str) ==
  LET t == TrimRight(str)
      joined == Join(FieldsFunc(<<"\n">> \o t, <<>>, <<>>), <<" ">>)
  IN IF t # <<>> /\ IsSpace(Head(t)) THEN <<" ">> \o joined ELSE joined

\* opts.Normal applied to a display line.
normalize(normal, str) ==
  CASE normal = "w" -> ignoreAllSpace(Chars(str))
    [] normal = "b" -> ignoreSpaceChange(Chars(str))

\* lines, were the lines compared as they are displayed whatever normal.
linesAsDisplayed(x, normal) ==
  LET parts == Split(x)
      last == Len(parts)
      disp == IF parts[last] = <<>> THEN SubSeq(parts, 1, last - 1)
              ELSE [parts EXCEPT ![last] = Append(parts[last], NoNewline)]
  IN [disp |-> disp, cmp |-> disp]

\* lines: the display lines and the compared lines of a file.
lines(x, normal) ==
  LET parts == Split(x)
      last == Len(parts)
      disp == IF parts[last] = <<>> THEN SubSeq(parts, 1, last - 1)
              ELSE [parts EXCEPT ![last] = Append(parts[last], NoNewline)]
  IN [disp |-> disp,
      cmp |-> IF normal = NilNormal THEN disp
              ELSE [i \in 1..Len(disp) |-> normalize(normal, disp[i])]]

RECURSIVE countX(_, _, _)
\* tgs, first loop: m[s] goes 0, -1, -2 over the occurrences of s in x.
countX(m, x, i) ==
  IF i > Len(x) THEN m
  ELSE countX(IF m[x[i]] > -2 THEN [m EXCEPT ![x[i]] = m[x[i]] - 1] ELSE m,
              x, i + 1)

RECURSIVE countY(_, _, _)
\* tgs, second loop: m[s] goes down by 4 per occurrence of s in y, twice at most.
countY(m, y, i) ==
  IF i > Len(y) THEN m
  ELSE countY(IF m[y[i]] > -8 THEN [m EXCEPT ![y[i]] = m[y[i]] - 4] ELSE m,
              y, i + 1)

RECURSIVE gatherY(_, _, _, _)
\* tgs: yi, the indexes of the unique strings in y; m[s] becomes s's place in yi.
gatherY(m, yi, y, i) ==
  IF i > Len(y) THEN [m |-> m, yi |-> yi]
  ELSE IF m[y[i]] = -1 + -4
       THEN gatherY([m EXCEPT ![y[i]] = Len(yi)], Append(yi, i - 1), y, i + 1)
       ELSE gatherY(m, yi, y, i + 1)

RECURSIVE gatherX(_, _, _, _, _)
\* tgs: xi, the indexes of the unique strings in x, and inv.
gatherX(m, xi, inv, x, i) ==
  IF i > Len(x) THEN [xi |-> xi, inv |-> inv]
  ELSE IF m[x[i]] >= 0
       THEN gatherX(m, Append(xi, i - 1), Append(inv, m[x[i]]), x, i + 1)
       ELSE gatherX(m, xi, inv, x, i + 1)

RECURSIVE Search(_, _, _, _)
\* sort.Search(n, func(k) bool { return T[k] >= v }): binary search in [i, j).
Search(T, v, i, j) ==
  IF i < j
  THEN LET h == (i + j) \div 2
       IN IF ~(T[h + 1] >= v) THEN Search(T, v, h + 1, j)
          ELSE Search(T, v, i, h)
  ELSE i

\* Algorithm A without the search: every unique line extends the sequence.
algorithmATakeAll(J, n, i, T, L) == [j \in 1..n |-> j]

RECURSIVE algorithmA(_, _, _, _, _)
\* tgs: Szymanski's Algorithm A, filling T and L for i = 0 .. n-1.
algorithmA(J, n, i, T, L) ==
  IF i >= n THEN L
  ELSE LET k == Search(T, J[i + 1], 0, n)
       IN algorithmA(J, n, i + 1, [T EXCEPT ![k + 1] = J[i + 1]],
                     [L EXCEPT ![i + 1] = k + 1])

RECURSIVE MaxOf(_, _, _)
MaxOf(L, i, k) ==
  IF i > Len(L) THEN k ELSE MaxOf(L, i + 1, IF k < L[i] THEN L[i] ELSE k)

RECURSIVE backtrack(_, _, _, _, _, _, _, _)
\* tgs: the last loop, for i = n-1 down to 0 (lastj is n throughout).
backtrack(seq, i, k, L, J, xi, yi, lastj) ==
  IF i < 0 THEN seq
  ELSE IF L[i + 1] = k /\ J[i + 1] < lastj
       THEN backtrack([seq EXCEPT ![k + 1] =
                         [x |-> xi[i + 1], y |-> yi[J[i + 1] + 1]]],
                      i - 1, k - 1, L, J, xi, yi, lastj)
       ELSE backtrack(seq, i - 1, k, L, J, xi, yi, lastj)

\* q[i], i counted from 0, does not panic.
IndexOK(q, i) == 0 <= i /\ i < Len(q)

RECURSIVE algorithmAInRange(_, _, _, _)
\* tgs: the index expressions J[i], T[k] and L[i] of Algorithm A are in range.
algorithmAInRange(J, n, i, T) ==
  IF i >= n THEN TRUE
  ELSE /\ IndexOK(J, i)
       /\ LET k == Search(T, J[i + 1], 0, n)
          IN /\ IndexOK(T, k)
             /\ algorithmAInRange(J, n, i + 1, [T EXCEPT ![k + 1] = J[i + 1]])

RECURSIVE backtrackInRange(_, _, _, _, _, _, _, _)
\* tgs: the index expressions L[i], J[i], seq[k], xi[i] and yi[J[i]] of the
\* last loop are in range; n2 is len(seq).
backtrackInRange(n2, i, k, L, J, xi, yi, lastj) ==
  IF i < 0 THEN TRUE
  ELSE /\ IndexOK(L, i) /\ IndexOK(J, i)
       /\ IF L[i + 1] = k /\ J[i + 1] < lastj
          THEN /\ 0 <= k /\ k < n2
               /\ IndexOK(xi, i) /\ IndexOK(yi, J[i + 1])
               /\ backtrackInRange(n2, i - 1, k - 1, L, J, xi, yi, lastj)
          ELSE backtrackInRange(n2, i - 1, k, L, J, xi, yi, lastj)

\* tgs indexes its slices in range throughout.
tgsInRange(x, y) ==
  LET strs == {x[i] : i \in DOMAIN x} \cup {y[i] : i \in DOMAIN y}
      m0 == countY(countX([str \in strs |-> 0], x, 1), y, 1)
      gy == gatherY(m0, <<>>, y, 1)
      gx == gatherX(gy.m, <<>>, <<>>, x, 1)
      J == gx.inv
      n == Len(gx.xi)
  IN /\ algorithmAInRange(J, n, 0, [i \in 1..n |-> n + 1])
     /\ LET L == algorithmA(J, n, 0, [i \in 1..n |-> n + 1],
                            [i \in 1..n |-> 0])
            k == MaxOf(L, 1, 0)
        IN backtrackInRange(2 + k, n - 1, k, L, J, gx.xi, gy.yi, n)

\* tgs: the longest common subsequence of the unique lines of x and y, as
\* pairs of indexes, between the sentinels {0,0} and {len(x),len(y)}.
tgs(x, y) ==
  LET strs == {x[i] : i \in DOMAIN x} \cup {y[i] : i \in DOMAIN y}
      m0 == countY(countX([str \in strs |-> 0], x, 1), y, 1)
      gy == gatherY(m0, <<>>, y, 1)
      gx == gatherX(gy.m, <<>>, <<>>, x, 1)
      J == gx.inv
      n == Len(gx.xi)
      L == algorithmA(J, n, 0, [i \in 1..n |-> n + 1], [i \in 1..n |-> 0])
      k == MaxOf(L, 1, 0)
      seq0 == [i \in 1..(2 + k) |->
                 IF i = 2 + k THEN [x |-> Len(x), y |-> Len(y)]
                 ELSE [x |-> 0, y |-> 0]]
  IN backtrack(seq0, n - 1, k, L, J, gx.xi, gy.yi, n)

RECURSIVE emitFromZero(_, _, _, _)
\* The append loops numbering the lines from 0: chunk + count before the
\* count is incremented.
emitFromZero(st, ls, i, sym) ==
  IF i > Len(ls) THEN st
  ELSE LET cx == IF sym = "+" THEN st.count.x ELSE st.count.x + 1
           cy == IF sym = "-" THEN st.count.y ELSE st.count.y + 1
           hl == [NumberX |-> IF sym = "+" THEN -1 ELSE st.chunk.x + cx - 1,
                  NumberY |-> IF sym = "-" THEN -1 ELSE st.chunk.y + cy - 1,
                  Value |-> <<sym>> \o ls[i]]
       IN emitFromZero([st EXCEPT !.count = [x |-> cx, y |-> cy],
                                  !.ctext = Append(st.ctext, hl)],
                       ls, i + 1, sym)

RECURSIVE emit(_, _, _, _)
\* The three append loops of DiffWithOptions: every line of ls, from the
\* i-th on, goes to ctext as a "-", "+" or " " line and is counted.
emit(st, ls, i, sym) ==
  IF i > Len(ls) THEN st
  ELSE LET cx == IF sym = "+" THEN st.count.x ELSE st.count.x + 1
           cy == IF sym = "-" THEN st.count.y ELSE st.count.y + 1
           hl == [NumberX |-> IF sym = "+" THEN -1 ELSE st.chunk.x + cx,
                  NumberY |-> IF sym = "-" THEN -1 ELSE st.chunk.y + cy,
                  Value |-> <<sym>> \o ls[i]]
       IN emit([st EXCEPT !.count = [x |-> cx, y |-> cy],
                          !.ctext = Append(st.ctext, hl)],
               ls, i + 1, sym)

RECURSIVE expandStart(_, _, _, _)
\* for start.x > done.x && start.y > done.y && x[start.x-1] == y[start.y-1]
expandStart(x, y, done, start) ==
  IF start.x > done.x /\ start.y > done.y /\ x[start.x] = y[start.y]
  THEN expandStart(x, y, done, [x |-> start.x - 1, y |-> start.y - 1])
  ELSE start

RECURSIVE expandEndAnyLine(_, _, _)
\* The forward expansion without the comparison of the lines.
expandEndAnyLine(x, y, end) ==
  IF end.x < Len(x) /\ end.y < Len(y)
  THEN expandEndAnyLine(x, y, [x |-> end.x + 1, y |-> end.y + 1])
  ELSE end

RECURSIVE expandEnd(_, _, _)
\* for end.x < len(x) && end.y < len(y) && x[end.x] == y[end.y]
expandEnd(x, y, end) ==
  IF end.x < Len(x) /\ end.y < Len(y) /\ x[end.x + 1] = y[end.y + 1]
  THEN expandEnd(x, y, [x |-> end.x + 1, y |-> end.y + 1])
  ELSE end

\* n := end.x - start.x, were it set to opts.Context whatever it is.
MinSecond(a, b) == b

\* n := end.x - start.x; if n > opts.Context { n = opts.Context }
Min(a, b) == IF a < b THEN a ELSE b

\* A slice expression out of range: the call panics.
Panics(st) == [st EXCEPT !.panic = TRUE]

\* The hunk emission, were the counts not set back to zero after it.
emitHunkKeepCount(st) ==
  LET cx == IF st.count.x > 0 THEN st.chunk.x + 1 ELSE st.chunk.x
      cy == IF st.count.y > 0 THEN st.chunk.y + 1 ELSE st.chunk.y
  IN [st EXCEPT !.chunk = [x |-> cx, y |-> cy],
                !.Hunks = Append(st.Hunks,
                                 [LineOld |-> cx, CountOld |-> st.count.x,
                                  LineNew |-> cy, CountNew |-> st.count.y,
                                  Lines |-> st.ctext]),
                !.ctext = <<>>]

\* Format and emit chunk: lines are numbered from 1, an empty side shows 0.
emitHunk(st) ==
  LET cx == IF st.count.x > 0 THEN st.chunk.x + 1 ELSE st.chunk.x
      cy == IF st.count.y > 0 THEN st.chunk.y + 1 ELSE st.chunk.y
  IN [st EXCEPT !.chunk = [x |-> cx, y |-> cy],
                !.Hunks = Append(st.Hunks,
                                 [LineOld |-> cx, CountOld |-> st.count.x,
                                  LineNew |-> cy, CountNew |-> st.count.y,
                                  Lines |-> st.ctext]),
                !.count = [x |-> 0, y |-> 0],
                !.ctext = <<>>]

\* After the hunk, if any: stop at EOF, otherwise start a new chunk with its
\* leading context.
newChunk(st, xDisp, x, y, end, context) ==
  IF end.x >= Len(x) /\ end.y >= Len(y) THEN [st EXCEPT !.brk = TRUE]
  ELSE IF ~SliceOK(xDisp, end.x - context, end.x) THEN Panics(st)
  ELSE [emit([st EXCEPT !.chunk = [x |-> end.x - context,
                                   y |-> end.y - context]],
             Slice(xDisp, end.x - context, end.x), 1, " ")
          EXCEPT !.done = end]

\* One turn of the loop over the matches, for the match m.
turn(st, m, xDisp, yDisp, x, y, context) ==
  IF m.x < st.done.x THEN st
  ELSE
    LET start == expandStart(x, y, st.done, m)
        end == expandEnd(x, y, m)
    IN IF ~SliceOK(xDisp, st.done.x, start.x)
          \/ ~SliceOK(yDisp, st.done.y, start.y) THEN Panics(st)
       ELSE
         LET s1 == emit(st, Slice(xDisp, st.done.x, start.x), 1, "-")
             s2 == emit(s1, Slice(yDisp, st.done.y, start.y), 1, "+")
             common == end.x - start.x
         IN IF /\ (end.x < Len(x) \/ end.y < Len(y))
               /\ \/ common < context
                  \/ Len(s2.ctext) > 0 /\ common < 2 * context
            THEN IF ~SliceOK(xDisp, start.x, end.x) THEN Panics(s2)
                 ELSE [emit(s2, Slice(xDisp, start.x, end.x), 1, " ")
                         EXCEPT !.done = end]
            ELSE IF Len(s2.ctext) > 0
                 THEN LET n == Min(common, context)
                      IN IF ~SliceOK(xDisp, start.x, start.x + n)
                         THEN Panics(s2)
                         ELSE newChunk(
                                emitHunk(
                                  [emit(s2, Slice(xDisp, start.x, start.x + n),
                                        1, " ")
                                     EXCEPT !.done = [x |-> start.x + n,
                                                      y |-> start.y + n]]),
                                xDisp, x, y, end, context)
                 ELSE newChunk(s2, xDisp, x, y, end, context)

RECURSIVE matches(_, _, _, _, _, _, _, _)
\* for _, m := range tgs(x, y)
matches(st, ms, i, xDisp, yDisp, x, y, context) ==
  IF i > Len(ms) \/ st.brk \/ st.panic THEN st
  ELSE matches(turn(st, ms[i], xDisp, yDisp, x, y, context), ms, i + 1,
               xDisp, yDisp, x, y, context)

\* DiffWithOptions: the hunks of the anchored diff of old and new.
DiffWithOptions(oldFile, newFile, o) ==
  IF oldFile = newFile THEN [Hunks |-> <<>>, panic |-> FALSE]
  ELSE LET xl == lines(oldFile, o.Normal)
           yl == lines(newFile, o.Normal)
           st0 == [done |-> [x |-> 0, y |-> 0], chunk |-> [x |-> 0, y |-> 0],
                   count |-> [x |-> 0, y |-> 0], ctext |-> <<>>,
                   Hunks |-> <<>>, brk |-> FALSE, panic |-> FALSE]
       IN IF ~tgsInRange(xl.cmp, yl.cmp) THEN [Hunks |-> <<>>, panic |-> TRUE]
          ELSE LET end == matches(st0, tgs(xl.cmp, yl.cmp), 1, xl.disp,
                                  yl.disp, xl.cmp, yl.cmp, o.Context)
               IN [Hunks |-> end.Hunks, panic |-> end.panic]

\* ------------------------------------------------------------------------
\* Specification of one diff call
\* ------------------------------------------------------------------------
DiffInputs ==
  /\ old \in Files
  /\ new \in Files
  /\ opts \in [Normal : {NilNormal}, Context : 0..MaxContext]
  /\ u = [Hunks |-> <<>>, panic |-> FALSE]
  /\ diffpc = "call"
  /\ text = NoText

\* u := DiffWithOptions(oldName, old, newName, new, opts)
CallDiff ==
  /\ diffpc = "call"
  /\ u' = DiffWithOptions(old, new, opts)
  /\ diffpc' = "done"
  /\ UNCHANGED <<old, new, opts, text>>
  /\ UNCHANGED outsideDiff

RECURSIVE Itoa(_)
\* The verb %d of fmt: the decimal digits of n >= 0.
Itoa(n) ==
  LET digit(d) == <<"0", "1", "2", "3", "4", "5", "6", "7", "8", "9">>[d + 1]
  IN IF n < 10 THEN <<digit(n)>> ELSE Append(Itoa(n \div 10), digit(n % 10))

\* fmt.Sprintf("@@ -%d,%d +%d,%d @@", hunk.LineOld, hunk.CountOld,
\*             hunk.LineNew, hunk.CountNew)
hunk_header(hunk) ==
  <<"@@ -">> \o Itoa(hunk.LineOld) \o <<",">> \o Itoa(hunk.CountOld)
    \o <<" +">> \o Itoa(hunk.LineNew) \o <<",">> \o Itoa(hunk.CountNew)
    \o <<" @@">>

RECURSIVE StringHunks(_, _)
\* for _, hunk := range d.Hunks: the header line, then the lines of the hunk.
StringHunks(hs, i) ==
  IF i > Len(hs) THEN <<>>
  ELSE <<hunk_header(hs[i])>>
         \o [j \in 1..Len(hs[i].Lines) |-> hs[i].Lines[j].Value]
         \o StringHunks(hs, i + 1)

\* func (d Unified) String() string, as the lines it writes.
String(d) ==
  IF Len(d.Hunks) = 0 THEN <<>>
  ELSE << <<"diff ", "OldName", " ", "NewName">>, <<"--- ", "OldName">>,
          <<"+++ ", "NewName">> >> \o StringHunks(d.Hunks, 1)

\* HunkLine.Type
TypeInsert == "insert"
TypeDelete == "delete"
TypeEqual == "equal"
TypeInvalid == "invalid"
Type(l) ==
  CASE l.Value[1] = "+" -> TypeInsert
    [] l.Value[1] = "-" -> TypeDelete
    [] l.Value[1] = " " -> TypeEqual
    [] OTHER -> TypeInvalid

\* countNextInsertDelete over the whole of ll, equal lines not stopping it.
RECURSIVE countAllInsertDelete(_)
countAllInsertDelete(ll) ==
  IF ll = <<>> THEN [ins |-> 0, del |-> 0]
  ELSE LET r == countAllInsertDelete(Tail(ll))
       IN CASE Type(Head(ll)) = TypeInsert -> [r EXCEPT !.ins = @ + 1]
            [] Type(Head(ll)) = TypeDelete -> [r EXCEPT !.del = @ + 1]
            [] OTHER -> r

RECURSIVE countNextInsertDelete(_)
\* countNextInsertDelete: the inserts and deletes ll begins with, up to the
\* first line that is neither.
countNextInsertDelete(ll) ==
  IF ll = <<>> THEN [ins |-> 0, del |-> 0]
  ELSE CASE Type(Head(ll)) = TypeInsert ->
              [countNextInsertDelete(Tail(ll)) EXCEPT !.ins = @ + 1]
         [] Type(Head(ll)) = TypeDelete ->
              [countNextInsertDelete(Tail(ll)) EXCEPT !.del = @ + 1]
         [] OTHER -> [ins |-> 0, del |-> 0]

RECURSIVE paddingsFrom(_, _, _, _)
\* The loop of SplitViewPaddings from index i (counted from 0) on.  A line
\* of an invalid type makes i += ins + del - 1; i++ leave i where it is: the
\* loop does not end (hangs).
paddingsFrom(ls, i, red, green) ==
  IF ~(i < Len(ls)) THEN [Red |-> red, Green |-> green, hangs |-> FALSE]
  ELSE IF Type(ls[i + 1]) = TypeEqual THEN paddingsFrom(ls, i + 1, red, green)
  ELSE LET c == countNextInsertDelete(Slice(ls, i, Len(ls)))
       IN IF c.ins + c.del = 0
          THEN [Red |-> red, Green |-> green, hangs |-> TRUE]
          ELSE paddingsFrom(ls, i + c.ins + c.del - 1 + 1,
                            IF c.ins > c.del
                            THEN ((i + c.del) :> (c.ins - c.del)) @@ red
                            ELSE red,
                            IF c.del > c.ins /\ ~(c.ins > c.del)
                            THEN ((i + c.ins) :> (c.del - c.ins)) @@ green
                            ELSE green)

\* func (h Hunk) SplitViewPaddings() struct{ Red, Green map[int]int }
SplitViewPaddings(h) == paddingsFrom(h.Lines, 0, <<>>, <<>>)

\* The caller prints u: as text with String, as HTML with hunk_header and,
\* in the split view, with the paddings of every hunk.
Render ==
  /\ diffpc = "done"
  /\ ~u.panic
  /\ text' = [String |-> String(u),
              headers |-> [i \in 1..Len(u.Hunks) |-> hunk_header(u.Hunks[i])],
              paddings |-> [i \in 1..Len(u.Hunks) |->
                              SplitViewPaddings(u.Hunks[i])]]
  /\ diffpc' = "shown"
  /\ UNCHANGED <<old, new, opts, u>>
  /\ UNCHANGED outsideDiff

DiffNext ==
  \/ CallDiff
  \/ Render

DiffInit == DiffInputs /\ CacheCold /\ HttpIdle /\ TimeIdle
  /\ ViewIdle /\ SpaceIdle

SpecDiff == DiffInit /\ [][DiffNext]_vars

\* ------------------------------------------------------------------------
\* Properties of the diff engine (specification SpecDiff)
\* ------------------------------------------------------------------------
Symbol(l) == l.Value[1]
Content(l) == SubSeq(l.Value, 2, Len(l.Value))

\* Where a hunk starts in old, counted from 0: its header names line LineOld,
\* or the line after which it inserts when it has no old lines.
OldStart(h) == IF h.CountOld > 0 THEN h.LineOld - 1 ELSE h.LineOld

RECURSIVE applyLines(_, _)
\* What the lines of a hunk leave in the new file.
applyLines(ls, i) ==
  IF i > Len(ls) THEN <<>>
  ELSE IF Symbol(ls[i]) = "-" THEN applyLines(ls, i + 1)
       ELSE <<Content(ls[i])>> \o applyLines(ls, i + 1)

RECURSIVE oldLines(_, _)
\* The "-" and " " lines of a hunk, in order.
oldLines(ls, i) ==
  IF i > Len(ls) THEN <<>>
  ELSE IF Symbol(ls[i]) = "+" THEN oldLines(ls, i + 1)
       ELSE <<Content(ls[i])>> \o oldLines(ls, i + 1)

RECURSIVE applyHunks(_, _, _, _)
\* Walking the hunks from the i-th on against xs, pos lines of xs being done:
\* [ok, out]; ok fails when a hunk does not start at or after pos, or reaches
\* beyond the end of xs.
applyHunks(xs, hs, i, pos) ==
  IF i > Len(hs)
  THEN [ok |-> TRUE, out |-> Slice(xs, pos, Len(xs))]
  ELSE LET h == hs[i]
           from == OldStart(h)
       IN IF ~(pos <= from /\ from + h.CountOld <= Len(xs))
          THEN [ok |-> FALSE, out |-> <<>>]
          ELSE LET rest == applyHunks(xs, hs, i + 1, from + h.CountOld)
               IN [ok |-> rest.ok,
                   out |-> Slice(xs, pos, from) \o applyLines(h.Lines, 1)
                             \o rest.out]

\* C4: with no normalizer, walking the hunks of DiffWithOptions in order
\* against old (copying what lies outside the hunks and the " " lines,
\* dropping the "-" lines, inserting the "+" lines) gives new exactly, and the
\* "-" and " " lines of every hunk are the old lines at the hunk's old range.
C4_PatchCorrect ==
  diffpc = "done" =>
    LET xs == lines(old, opts.Normal).disp
        ys == lines(new, opts.Normal).disp
        r == applyHunks(xs, u.Hunks, 1, 0)
    IN /\ ~u.panic
       /\ r.ok /\ r.out = ys
       /\ \A i \in DOMAIN u.Hunks :
            /\ Len(oldLines(u.Hunks[i].Lines, 1)) = u.Hunks[i].CountOld
            /\ oldLines(u.Hunks[i].Lines, 1)
                 = Slice(xs, OldStart(u.Hunks[i]),
                         OldStart(u.Hunks[i]) + u.Hunks[i].CountOld)

\* A diff of two hunks, the first of which deletes, inserts and keeps a line.
C4_Witness ==
  /\ diffpc = "done" /\ Len(u.Hunks) >= 2
  /\ \A sym \in {"-", "+", " "} :
       \E k \in DOMAIN u.Hunks[1].Lines : Symbol(u.Hunks[1].Lines[k]) = sym

\* ------------------------------------------------------------------------
\* Part III  package db: the buckets and AddAmountsAndCompare
\* ------------------------------------------------------------------------
\* A bbolt bucket is a map from keys to values; no entry reads as nil.
bucketHas(bk, key) == key \in DOMAIN bk
bucketPut(bk, key, val) == (key :> val) @@ bk
bucketDel(bk, key) == [k \in DOMAIN bk \ {key} |-> bk[k]]

\* UsageStat and its JSON form {"p": ..., "nb": ..., "nc": ...}.
ZeroStat == [Period |-> <<>>, NumBytes |-> 0, NumCalls |-> 0]
Marshal(stat) == [p |-> stat.Period, nb |-> stat.NumBytes, nc |-> stat.NumCalls]
Unmarshal(val) == [Period |-> val.p, NumBytes |-> val.nb, NumCalls |-> val.nc]

\* Whether the totals are beyond the limits, with >= where the code has >.
exceedsAtLimit(stat, limits) ==
  stat.NumBytes >= limits.MaxBytes \/ stat.NumCalls >= limits.MaxCalls

\* if stat.NumBytes > limits.MaxBytes || stat.NumCalls > limits.MaxCalls
exceeds(stat, limits) ==
  stat.NumBytes > limits.MaxBytes \/ stat.NumCalls > limits.MaxCalls

\* AddAmountsAndCompare, were the new totals put before they are compared.
AddAmountsAndCompareEager(bk, name, deltaStat, limits) ==
  LET stat0 == IF bucketHas(bk, name) THEN Unmarshal(bk[name]) ELSE ZeroStat
      stat == IF stat0.Period = deltaStat.Period
              THEN [Period |-> stat0.Period,
                    NumCalls |-> U64(stat0.NumCalls + deltaStat.NumCalls),
                    NumBytes |-> U64(stat0.NumBytes + deltaStat.NumBytes)]
              ELSE deltaStat
  IN [err |-> IF exceeds(stat, limits) THEN "ErrLimitsExceeded" ELSE Nil,
      bk |-> bucketPut(bk, name, Marshal(stat))]

\* AddAmountsAndCompare, were the delta added whatever the stored period.
AddAmountsAndCompareNoReset(bk, name, deltaStat, limits) ==
  LET stat0 == IF bucketHas(bk, name) THEN Unmarshal(bk[name]) ELSE ZeroStat
      stat == [Period |-> deltaStat.Period,
               NumCalls |-> U64(stat0.NumCalls + deltaStat.NumCalls),
               NumBytes |-> U64(stat0.NumBytes + deltaStat.NumBytes)]
  IN IF exceeds(stat, limits)
     THEN [err |-> "ErrLimitsExceeded", bk |-> bk]
     ELSE [err |-> Nil, bk |-> bucketPut(bk, name, Marshal(stat))]

\* The transaction of AddAmountsAndCompare, which bbolt's Batch runs
\* atomically: [err, bk], the error returned and the bucket afterwards.
AddAmountsAndCompare(bk, name, deltaStat, limits) ==
  LET stat0 == IF bucketHas(bk, name) THEN Unmarshal(bk[name]) ELSE ZeroStat
      stat == IF stat0.Period = deltaStat.Period
              THEN [Period |-> stat0.Period,
                    NumCalls |-> U64(stat0.NumCalls + deltaStat.NumCalls),
                    NumBytes |-> U64(stat0.NumBytes + deltaStat.NumBytes)]
              ELSE deltaStat
  IN IF exceeds(stat, limits)
     THEN [err |-> "ErrLimitsExceeded", bk |-> bk]
     ELSE [err |-> Nil, bk |-> bucketPut(bk, name, Marshal(stat))]

\* ------------------------------------------------------------------------
\* Part III  Server.upload
\* ------------------------------------------------------------------------
MaxUploads == 102   \* requests of one behaviour of SpecLimit
MaxRequests == 3    \* requests of one behaviour of SpecUpload
MaxWeeks == 1       \* period switches of one behaviour of SpecUpload
MaxUploadFails == 2 \* failing backend calls of one behaviour of SpecUpload

Clients == {"171.81.83.116"}
\* Archives: id stands for the first 5 bytes of the SHA-256 sum, v tells
\* apart archives whose sums share those bytes, size is len(arc).
Arcs == {[id |-> i, v |-> 1, size |-> maxBodySize] : i \in 1..3}
          \cup {[id |-> 1, v |-> 2, size |-> 1]}

\* id := cford32.EncodeToStringLower(shaHash[:5])
ShortID(arc) == arc.id
\* hex.EncodeToString(shaHash[:])
Sum(arc) == <<arc.id, arc.v>>
\* link := s.PublicURL + "/" + id
Link(id) == <<PublicURL, "/", id>>
\* fmt.Sprintf("%d/%d", now.Year(), weekNum)
Period(w) == <<2025, "/", w>>

\* s.usageString()
usageString ==
  <<"usage: curl -F red=@before.txt -F green=@after.txt ", PublicURL, "\n">>

\* The handler returns having answered code, with the Location header and
\* the body given.
RespondBody(h, code, loc, dedup, body) ==
  /\ hresp' = [hresp EXCEPT ![h] = [code |-> code, location |-> loc,
                                   dedup |-> dedup, body |-> body]]
  /\ hpc' = [hpc EXCEPT ![h] = "done"]

\* The answers of output() (302), of the limit branch (429) and of the
\* wrapper e for an error that is not errUsage (500).
Respond(h, code, loc, dedup) ==
  RespondBody(h, code, loc, dedup,
              CASE code = 302 -> <<loc, "\n">>
                [] code = 429 -> <<"limit exceeded; will reset on ">>
                [] OTHER -> <<"500 internal server error\n">>)

\* The multipart form a client posts to upload the archive arc: two file
\* parts, or (for the second archive of a short ID) two fields, the red one
\* without a red_name.
FormOf(arc) ==
  IF arc.v = 1
  THEN [parsed |-> TRUE,
        File |-> [red |-> <<[Filename |-> "before.txt", Size |-> 2,
                             Data |-> <<"before", arc.id>>]>>,
                  green |-> <<[Filename |-> "after.txt", Size |-> 2,
                               Data |-> <<"after", arc.id>>]>>,
                  other |-> <<>>],
        Value |-> NoValues]
  ELSE [parsed |-> TRUE,
        File |-> NoParts,
        Value |-> [red |-> << <<"before", arc.id, arc.v>> >>,
                   green |-> << <<"after", arc.id, arc.v>> >>,
                   red_name |-> <<>>, green_name |-> <<"new.txt">>]]

\* Forms that are not an upload: a body that is no multipart form, file
\* parts without exactly one red and one green, fields without exactly one
\* red and one green.
BadForms ==
  LET part == [Filename |-> "x.txt", Size |-> 1, Data |-> <<"x">>]
  IN {NoForm,
      [parsed |-> TRUE, Value |-> NoValues,
       File |-> [red |-> <<part>>, green |-> <<>>, other |-> <<>>]],
      [parsed |-> TRUE, Value |-> NoValues,
       File |-> [red |-> <<part, part>>, green |-> <<part>>, other |-> <<>>]],
      [parsed |-> TRUE, Value |-> NoValues,
       File |-> [red |-> <<>>, green |-> <<>>, other |-> <<part>>]],
      [parsed |-> TRUE, File |-> NoParts, Value |-> NoValues],
      [parsed |-> TRUE, File |-> NoParts,
       Value |-> [red |-> << <<"x">> >>, green |-> <<>>,
                  red_name |-> <<>>, green_name |-> <<>>]],
      [parsed |-> TRUE, File |-> NoParts,
       Value |-> [red |-> << <<"x">>, <<"y">> >>, green |-> << <<"z">> >>,
                  red_name |-> <<>>, green_name |-> <<>>]]}

\* tarWriteMultipart: one header and the bytes of one entry.
tarWriteMultipart(tw, name, sz, data) ==
  Append(tw, [Name |-> name, Size |-> sz, Mode |-> "0600", Data |-> data])

\* archiveFromFormFiles, were the number of green files not looked at.
archiveFromFormFilesRedOnly(mf) ==
  IF Len(mf.File.red) # 1
  THEN [err |-> "errUsage", tgz |-> <<>>]
  ELSE LET green == IF Len(mf.File.green) > 0 THEN mf.File.green[1]
                    ELSE mf.File.red[1]
       IN [err |-> Nil,
           tgz |-> [gzip |->
             tarWriteMultipart(
               tarWriteMultipart(<<>>, mf.File.red[1].Filename,
                                 mf.File.red[1].Size, mf.File.red[1].Data),
               green.Filename, green.Size, green.Data)]]

archiveFromFormFiles(mf) ==
  IF Len(mf.File.red) # 1 \/ Len(mf.File.green) # 1
  THEN [err |-> "errUsage", tgz |-> <<>>]
  ELSE [err |-> Nil,
        tgz |-> [gzip |->
          tarWriteMultipart(
            tarWriteMultipart(<<>>, mf.File.red[1].Filename,
                              mf.File.red[1].Size, mf.File.red[1].Data),
            mf.File.green[1].Filename, mf.File.green[1].Size,
            mf.File.green[1].Data)]]

withDefault(str, def) == IF Len(str) = 0 \/ str[1] = "" THEN def ELSE str[1]

archiveFromFormValues(mf) ==
  IF Len(mf.Value.red) # 1 \/ Len(mf.Value.green) # 1
  THEN [err |-> "errUsage", tgz |-> <<>>]
  ELSE [err |-> Nil,
        tgz |-> [gzip |->
          tarWriteMultipart(
            tarWriteMultipart(<<>>, withDefault(mf.Value.red_name, "red"),
                              Len(mf.Value.red[1]), mf.Value.red[1]),
            withDefault(mf.Value.green_name, "green"),
            Len(mf.Value.green[1]), mf.Value.green[1])]]

\* if len(r.MultipartForm.File) > 0 { ...Files } else { ...Values }
archiveFromForm(mf) ==
  IF Len(mf.File.red) + Len(mf.File.green) + Len(mf.File.other) > 0
  THEN archiveFromFormFiles(mf)
  ELSE archiveFromFormValues(mf)

\* The bytes of the archive arc: what upload packs from its form.
Bytes(arc) == archiveFromForm(FormOf(arc)).tgz

\* A backend call of a handler fails.
UploadFails ==
  /\ ufail < MaxUploadFails
  /\ ufail' = ufail + 1

\* A POST arrives.
Receive(h, client, form, arc) ==
  /\ hpc[h] = "idle" /\ reqLeft > 0
  /\ reqLeft' = reqLeft - 1
  /\ hreq' = [hreq EXCEPT ![h] = [client |-> client, form |-> form, arc |-> arc]]
  /\ hpc' = [hpc EXCEPT ![h] = "form"]
  /\ UNCHANGED <<files, stats, storage, week, hresp, ufail, history, dbcall>>
  /\ UNCHANGED outsideHttp

\* A POST of an archive never posted before (distinct short IDs), by the one
\* client.
ReceiveUnseen(h) ==
  \E c \in Clients :
    Receive(h, c, FormOf([id |-> MaxUploads - reqLeft + 1, v |-> 1, size |-> 1]),
            [id |-> MaxUploads - reqLeft + 1, v |-> 1, size |-> 1])

\* Any POST.
ReceiveAny(h) ==
  \E c \in Clients :
    \/ \E arc \in Arcs : Receive(h, c, FormOf(arc), arc)
    \/ \E f \in BadForms : Receive(h, c, f, NoRequest.arc)

\* ParseMultipartForm and archiveFromForm*: 400 with the usage string, either
\* written by upload after the parse error or by the wrapper e for errUsage.
ParseForm(h) ==
  /\ hpc[h] = "form"
  /\ IF ~hreq[h].form.parsed
     THEN RespondBody(h, 400, <<>>, FALSE, <<"error: ", "\n">> \o usageString)
     ELSE IF archiveFromForm(hreq[h].form).err = "errUsage"
          THEN RespondBody(h, 400, <<>>, FALSE, usageString)
          ELSE hpc' = [hpc EXCEPT ![h] = "hasFile"] /\ hresp' = hresp
  /\ UNCHANGED <<files, stats, storage, week, hreq, reqLeft, ufail, history,
                 dbcall>>
  /\ UNCHANGED outsideHttp

\* HasFile, were a re-upload counted against the client before it is answered.
HasFileCounting(h) ==
  /\ hpc[h] = "hasFile"
  /\ IF bucketHas(files, ShortID(hreq[h].arc))
     THEN /\ Respond(h, 302, Link(ShortID(hreq[h].arc)), TRUE)
          /\ stats' = AddAmountsAndCompare(stats, hreq[h].client,
                         [Period |-> Period(week),
                          NumBytes |-> hreq[h].arc.size, NumCalls |-> 1],
                         [MaxBytes |-> maxBytesWeek,
                          MaxCalls |-> maxCallsWeek]).bk
     ELSE /\ hpc' = [hpc EXCEPT ![h] = "addAmounts"] /\ hresp' = hresp
          /\ stats' = stats
  /\ UNCHANGED <<files, storage, week, hreq, reqLeft, ufail, history, dbcall>>
  /\ UNCHANGED outsideHttp

\* has, err := s.DB.HasFile(id); if has { output(); return nil }
HasFile(h) ==
  /\ hpc[h] = "hasFile"
  /\ IF bucketHas(files, ShortID(hreq[h].arc))
     THEN Respond(h, 302, Link(ShortID(hreq[h].arc)), TRUE)
     ELSE hpc' = [hpc EXCEPT ![h] = "addAmounts"] /\ hresp' = hresp
  /\ UNCHANGED <<files, stats, storage, week, hreq, reqLeft, ufail, history,
                 dbcall>>
  /\ UNCHANGED outsideHttp

\* HasFile returns an error: upload returns it, e answers 500.
HasFileFails(h) ==
  /\ hpc[h] = "hasFile"
  /\ UploadFails
  /\ Respond(h, 500, <<>>, FALSE)
  /\ UNCHANGED <<files, stats, storage, week, hreq, reqLeft, history, dbcall>>
  /\ UNCHANGED outsideHttp

\* The record of a call of AddAmountsAndCompare and of who wrote each key.
Called(name, delta, limits, r) ==
  [called |-> TRUE, name |-> name, delta |-> delta, limits |-> limits,
   before |-> stats, err |-> r.err,
   writers |-> IF r.err = Nil THEN bucketPut(dbcall.writers, name, limits)
               ELSE dbcall.writers]

\* err = s.DB.AddAmountsAndCompare(r.RemoteAddr, ...): 429 on
\* ErrLimitsExceeded, else on to Storage.Put.
AddAmounts(h) ==
  /\ hpc[h] = "addAmounts"
  /\ LET delta == [Period |-> Period(week), NumBytes |-> hreq[h].arc.size,
                   NumCalls |-> 1]
         limits == [MaxBytes |-> maxBytesWeek, MaxCalls |-> maxCallsWeek]
         r == AddAmountsAndCompare(stats, hreq[h].client, delta, limits)
     IN /\ stats' = r.bk
        /\ dbcall' = Called(hreq[h].client, delta, limits, r)
        /\ IF r.err = "ErrLimitsExceeded"
           THEN Respond(h, 429, <<>>, FALSE)
           ELSE hpc' = [hpc EXCEPT ![h] = "storagePut"] /\ hresp' = hresp
  /\ UNCHANGED <<files, storage, week, hreq, reqLeft, ufail, history>>
  /\ UNCHANGED outsideHttp

\* AddAmountsAndCompare returns another error: the if has no branch for it,
\* the handler goes on.
AddAmountsFails(h) ==
  /\ hpc[h] = "addAmounts"
  /\ UploadFails
  /\ hpc' = [hpc EXCEPT ![h] = "storagePut"]
  /\ UNCHANGED <<files, stats, storage, week, hreq, hresp, reqLeft, history,
                 dbcall>>
  /\ UNCHANGED outsideHttp

\* err = s.Storage.Put(r.Context(), id, arc)
StoragePut(h) ==
  /\ hpc[h] = "storagePut"
  /\ storage' = bucketPut(storage, ShortID(hreq[h].arc), hreq[h].arc)
  /\ hpc' = [hpc EXCEPT ![h] = "putFile"]
  /\ UNCHANGED <<files, stats, week, hreq, hresp, reqLeft, ufail, history,
                 dbcall>>
  /\ UNCHANGED outsideHttp

StoragePutFails(h) ==
  /\ hpc[h] = "storagePut"
  /\ UploadFails
  /\ Respond(h, 500, <<>>, FALSE)
  /\ UNCHANGED <<files, stats, storage, week, hreq, reqLeft, history, dbcall>>
  /\ UNCHANGED outsideHttp

\* How many times PutFile ran for an id (history).
Puts(id) == IF bucketHas(history.puts, id) THEN history.puts[id] ELSE 0

\* time.Now() of a PutFile for an id: the period, and within it an instant
\* later than that of every earlier PutFile for the id.
Now(id) == [week |-> week, seq |-> Puts(id)]

\* err = s.DB.PutFile(id, db.File{...}); output()
PutFile(h) ==
  /\ hpc[h] = "putFile"
  /\ files' = bucketPut(files, ShortID(hreq[h].arc),
                        [CreatedAt |-> Now(ShortID(hreq[h].arc)),
                         Sum |-> Sum(hreq[h].arc)])
  /\ Respond(h, 302, Link(ShortID(hreq[h].arc)), FALSE)
  /\ history' = [history EXCEPT
                   !.loc = bucketPut(@, ShortID(hreq[h].arc),
                                     Link(ShortID(hreq[h].arc))),
                   !.puts = bucketPut(@, ShortID(hreq[h].arc),
                                      Puts(ShortID(hreq[h].arc)) + 1)]
  /\ UNCHANGED <<stats, storage, week, hreq, reqLeft, ufail, dbcall>>
  /\ UNCHANGED outsideHttp

PutFileFails(h) ==
  /\ hpc[h] = "putFile"
  /\ UploadFails
  /\ hpc' = [hpc EXCEPT ![h] = "compensate"]
  /\ UNCHANGED <<files, stats, storage, week, hreq, hresp, reqLeft, history,
                 dbcall>>
  /\ UNCHANGED outsideHttp

\* multierr.Combine(err, s.Storage.Del(context.Background(), id))
Compensate(h) ==
  /\ hpc[h] = "compensate"
  /\ storage' = bucketDel(storage, ShortID(hreq[h].arc))
  /\ Respond(h, 500, <<>>, FALSE)
  /\ UNCHANGED <<files, stats, week, hreq, reqLeft, ufail, history, dbcall>>
  /\ UNCHANGED outsideHttp

CompensateFails(h) ==
  /\ hpc[h] = "compensate"
  /\ UploadFails
  /\ Respond(h, 500, <<>>, FALSE)
  /\ UNCHANGED <<files, stats, storage, week, hreq, reqLeft, history, dbcall>>
  /\ UNCHANGED outsideHttp

\* The response is sent; the tallies of what was answered are history, as
\* are loc, the Location answered by the upload that wrote the record of an
\* id, and ok, the archives whose upload was answered 302.
Finish(h) ==
  /\ hpc[h] = "done"
  /\ history' =
       [n302 |-> history.n302 + (IF hresp[h].code = 302 THEN 1 ELSE 0),
        n429 |-> history.n429 + (IF hresp[h].code = 429 THEN 1 ELSE 0),
        other |-> history.other + (IF hresp[h].code \in {302, 429} THEN 0 ELSE 1),
        loc |-> history.loc, puts |-> history.puts,
        ok |-> IF hresp[h].code = 302 THEN history.ok \cup {hreq[h].arc}
               ELSE history.ok]
  /\ hpc' = [hpc EXCEPT ![h] = "idle"]
  /\ hreq' = [hreq EXCEPT ![h] = NoRequest]
  /\ hresp' = [hresp EXCEPT ![h] = NoResponse]
  /\ UNCHANGED <<files, stats, storage, week, reqLeft, ufail, dbcall>>
  /\ UNCHANGED outsideHttp

\* The clock passes into the next 7-day period.
Tick ==
  /\ week < MaxWeeks
  /\ week' = week + 1
  /\ UNCHANGED <<files, stats, storage, hpc, hreq, hresp, reqLeft, ufail,
                 history, dbcall>>
  /\ UNCHANGED outsideHttp

\* ------------------------------------------------------------------------
\* Uploads of unseen archives by one client within one period, no backend
\* call failing
\* ------------------------------------------------------------------------
LimitInit == CacheCold /\ DiffIdle /\ HttpStart(MaxUploads) /\ TimeIdle
  /\ ViewIdle /\ SpaceIdle

LimitNext ==
  \E h \in Handlers :
    \/ ReceiveUnseen(h)
    \/ ParseForm(h)
    \/ HasFile(h)
    \/ AddAmounts(h)
    \/ StoragePut(h)
    \/ PutFile(h)
    \/ Finish(h)

SpecLimit == LimitInit /\ [][LimitNext]_vars

AllAnswered == reqLeft = 0 /\ \A h \in Handlers : hpc[h] = "idle"

\* C3: one client, one period, concurrent uploads of pairwise distinct
\* archives never seen before (distinct short IDs, 102 bytes in all): an
\* answer is either 302 with the Location of the upload or 429 without a
\* Location; a 429 is given only once the stored num_calls is 100; when all
\* the uploads are answered, exactly 100 of them got 302 and all the others
\* 429; the stored num_calls never exceeds 100.
C3_RateLimit ==
  /\ \A h \in Handlers :
       hpc[h] = "done" =>
         \/ /\ hresp[h].code = 302
            /\ hresp[h].location = Link(ShortID(hreq[h].arc))
         \/ /\ hresp[h].code = 429
            /\ hresp[h].location = <<>>
            /\ bucketHas(stats, hreq[h].client)
            /\ Unmarshal(stats[hreq[h].client]).NumCalls = maxCallsWeek
  /\ \A c \in DOMAIN stats : Unmarshal(stats[c]).NumCalls <= maxCallsWeek
  /\ AllAnswered =>
       /\ history.n302 = Min(MaxUploads, maxCallsWeek)
       /\ history.n429 = MaxUploads - history.n302
       /\ history.other = 0

C3_Witness ==
  /\ AllAnswered
  /\ history.n302 = maxCallsWeek
  /\ history.n429 = MaxUploads - maxCallsWeek
  /\ history.n429 >= 2

\* ------------------------------------------------------------------------
\* Uploads of any kind, backend calls that fail, the period switching
\* ------------------------------------------------------------------------
UploadInit == CacheCold /\ DiffIdle /\ HttpStart(MaxRequests) /\ TimeIdle
  /\ ViewIdle /\ SpaceIdle

UploadNext ==
  \/ \E h \in Handlers :
       \/ ReceiveAny(h)
       \/ ParseForm(h)
       \/ HasFile(h)
       \/ HasFileFails(h)
       \/ AddAmounts(h)
       \/ AddAmountsFails(h)
       \/ StoragePut(h)
       \/ StoragePutFails(h)
       \/ PutFile(h)
       \/ PutFileFails(h)
       \/ Compensate(h)
       \/ CompensateFails(h)
       \/ Finish(h)
  \/ Tick

SpecUpload == UploadInit /\ [][UploadNext]_vars

\* HasFile of handler h returns true: the short ID has an upload record.
DedupStep(h) ==
  /\ hpc[h] = "hasFile" /\ hpc'[h] # "hasFile"
  /\ bucketHas(files, ShortID(hreq[h].arc))
  /\ ufail' = ufail

\* C5: an upload whose short ID has an upload record when HasFile reads it
\* is answered 302 with the Location answered to the upload that wrote the
\* record; the handler ends there, and the step changes neither the storage,
\* nor the records, nor any usage counter.
C5_DedupNoEffect ==
  [][\A h \in Handlers :
       DedupStep(h) =>
         /\ hpc'[h] = "done"
         /\ hresp'[h].code = 302
         /\ bucketHas(history.loc, ShortID(hreq[h].arc))
         /\ hresp'[h].location = history.loc[ShortID(hreq[h].arc)]
         /\ UNCHANGED <<storage, files, stats>>]_vars

\* A re-upload answered 302 while its client's stored num_bytes of the
\* current period is at the limit.
C5_Witness ==
  \E h \in Handlers :
    /\ hpc[h] = "done" /\ hresp[h].dedup /\ hresp[h].code = 302
    /\ bucketHas(stats, hreq[h].client)
    /\ Unmarshal(stats[hreq[h].client]).Period = Period(week)
    /\ Unmarshal(stats[hreq[h].client]).NumBytes = maxBytesWeek

\* ------------------------------------------------------------------------
\* Calls of AddAmountsAndCompare
\* ------------------------------------------------------------------------
DBNames == {"morgan", "ash"}
DBDeltas == {[Period |-> Period(w), NumBytes |-> b, NumCalls |-> 1] :
               w \in 1..2, b \in {100, Wrap - 1}}
DBLimits == {[MaxBytes |-> 190, MaxCalls |-> 10],
             [MaxBytes |-> maxBodySize, MaxCalls |-> 1]}

DBInit == CacheCold /\ DiffIdle /\ HttpIdle /\ TimeIdle
  /\ ViewIdle /\ SpaceIdle

\* db.AddAmountsAndCompare(name, deltaStat, limits)
CallAddAmounts ==
  \E name \in DBNames, delta \in DBDeltas, limits \in DBLimits :
    LET r == AddAmountsAndCompare(stats, name, delta, limits)
    IN /\ stats' = r.bk
       /\ dbcall' = Called(name, delta, limits, r)
       /\ UNCHANGED <<files, storage, week, hpc, hreq, hresp, reqLeft, ufail,
                      history>>
       /\ UNCHANGED outsideHttp

SpecDB == DBInit /\ [][CallAddAmounts]_vars

\* The totals of a call: the stored counter plus the delta (uint64) when the
\* periods agree, else the delta.
Totals(before, name, delta) ==
  IF name \in DOMAIN before /\ before[name].p = delta.Period
  THEN [p |-> delta.Period,
        nb |-> U64(before[name].nb + delta.NumBytes),
        nc |-> U64(before[name].nc + delta.NumCalls)]
  ELSE [p |-> delta.Period, nb |-> delta.NumBytes, nc |-> delta.NumCalls]

\* C10: after a call of AddAmountsAndCompare, if a total is beyond its limit
\* the call returned ErrLimitsExceeded and the bucket is what it was before
\* the call; otherwise it returned nil and the counter of the key is the new
\* total, the other keys being untouched.  Every stored counter is within
\* the limits of the call that wrote it.
C10_AllOrNothing ==
  /\ dbcall.called =>
       LET t == Totals(dbcall.before, dbcall.name, dbcall.delta)
       IN IF t.nb > dbcall.limits.MaxBytes \/ t.nc > dbcall.limits.MaxCalls
          THEN dbcall.err = "ErrLimitsExceeded" /\ stats = dbcall.before
          ELSE /\ dbcall.err = Nil
               /\ DOMAIN stats = DOMAIN dbcall.before \cup {dbcall.name}
               /\ stats[dbcall.name] = t
               /\ \A n \in DOMAIN dbcall.before \ {dbcall.name} :
                    stats[n] = dbcall.before[n]
  /\ \A n \in DOMAIN stats :
       /\ n \in DOMAIN dbcall.writers
       /\ stats[n].nb <= dbcall.writers[n].MaxBytes
       /\ stats[n].nc <= dbcall.writers[n].MaxCalls

\* A call refused for a key that had a counter of the same period.
C10_Witness ==
  /\ dbcall.called
  /\ dbcall.err = "ErrLimitsExceeded"
  /\ dbcall.name \in DOMAIN dbcall.before
  /\ dbcall.before[dbcall.name].p = dbcall.delta.Period
  /\ stats[dbcall.name] = dbcall.before[dbcall.name]
  /\ stats[dbcall.name].nc >= 1

\* The call c found a counter of another period under its key.
Switched(c) ==
  /\ c.called
  /\ c.name \in DOMAIN c.before
  /\ c.before[c.name].p # c.delta.Period

\* C11: a call whose delta names another period than the stored counter of
\* its key compares exactly the delta with the limits: beyond a limit it
\* returns ErrLimitsExceeded and stores nothing, else it stores exactly the
\* delta.  A key whose calls were exhausted is so accepted in the next
\* period, and the call after an accepted switch, for the same key, period
\* and limits, is refused once the calls of the new period exceed the limit.
C11_PeriodSwitch ==
  [][/\ Switched(dbcall') =>
          IF \/ dbcall'.delta.NumBytes > dbcall'.limits.MaxBytes
             \/ dbcall'.delta.NumCalls > dbcall'.limits.MaxCalls
          THEN dbcall'.err = "ErrLimitsExceeded" /\ stats' = dbcall'.before
          ELSE /\ dbcall'.err = Nil
               /\ stats'[dbcall'.name] =
                    [p |-> dbcall'.delta.Period,
                     nb |-> dbcall'.delta.NumBytes,
                     nc |-> dbcall'.delta.NumCalls]
     /\ ( /\ Switched(dbcall) /\ dbcall.err = Nil
          /\ dbcall'.called
          /\ dbcall'.before = stats
          /\ dbcall'.name = dbcall.name
          /\ dbcall'.delta.Period = dbcall.delta.Period
          /\ dbcall'.limits = dbcall.limits
          /\ dbcall.delta.NumCalls + dbcall'.delta.NumCalls
               > dbcall.limits.MaxCalls )
        => dbcall'.err = "ErrLimitsExceeded"]_vars

\* A key that had used up its calls of one period is accepted in another.
C11_Witness ==
  /\ Switched(dbcall)
  /\ dbcall.err = Nil
  /\ dbcall.before[dbcall.name].nc = dbcall.limits.MaxCalls
  /\ stats[dbcall.name].nc = 1

\* ------------------------------------------------------------------------
\* Part III  the reset instant of a 429 answer
\* ------------------------------------------------------------------------
Years == {2024, 2025}
January == 1

isLeap(year) == year % 4 = 0 /\ (year % 100 # 0 \/ year % 400 = 0)
daysIn(year, month) ==
  <<31, IF isLeap(year) THEN 29 ELSE 28, 31, 30, 31, 30, 31, 31, 30, 31, 30,
    31>>[month]
daysOf(year) == IF isLeap(year) THEN 366 ELSE 365

\* time.Date(year, month, day, 0, 0, 0, 0, time.UTC): a day beyond the end
\* of the month is carried into the following months and years.
RECURSIVE Date(_, _, _)
Date(year, month, day) ==
  IF day <= daysIn(year, month)
  THEN [year |-> year, month |-> month, day |-> day]
  ELSE IF month = 12
       THEN Date(year + 1, 1, day - daysIn(year, month))
       ELSE Date(year, month + 1, day - daysIn(year, month))

\* t.YearDay()
RECURSIVE daysBefore(_, _)
daysBefore(year, month) ==
  IF month = 1 THEN 0 ELSE daysBefore(year, month - 1) + daysIn(year, month - 1)
YearDay(t) == daysBefore(t.year, t.month) + t.day

\* weekNum := (now.YearDay() - 1) / 7
weekNum(yday) == (yday - 1) \div 7

\* resetTime := time.Date(now.Year(), time.January, ((weekNum+1)*7)+1, ...)
resetTime(year, yday) == Date(year, January, (weekNum(yday) + 1) * 7 + 1)

\* An upload at any day of the years is about to be rejected.
TimeInputs ==
  /\ now \in {[year |-> y, yday |-> d] : y \in Years, d \in 1..366}
  /\ now.yday <= daysOf(now.year)
  /\ reset = NoTime

\* The 429 branch writes resetTime.Format(time.RFC3339) into the body.
Reject ==
  /\ reset = NoTime
  /\ reset' = resetTime(now.year, now.yday)
  /\ UNCHANGED now
  /\ UNCHANGED outsideTime

ResetInit == TimeInputs /\ CacheCold /\ DiffIdle /\ HttpIdle /\ ViewIdle /\ SpaceIdle

SpecReset == ResetInit /\ [][Reject]_vars

\* C12: the reset instant named in the body of a 429 answer has
\* (yearday - 1) mod 7 = 0, whatever the day of the rejection.
C12_ResetYearDay ==
  reset # NoTime => (YearDay(reset) - 1) % 7 = 0

\* C13: once a short ID has an upload record, no step changes or deletes
\* the bytes stored under that ID.
C13_ArchiveImmutable ==
  [][\A id \in DOMAIN files :
       bucketHas(storage, id) =>
         bucketHas(storage', id) /\ storage'[id] = storage[id]]_vars

\* C14: no step overwrites or deletes an upload record, so PutFile runs at
\* most once for a short ID and created_at stays that of the first upload.
C14_RecordWrittenOnce ==
  [][\A id \in DOMAIN files :
       /\ bucketHas(files', id)
       /\ files'[id] = files[id]
       /\ Puts(id)' = Puts(id)]_vars

\* ------------------------------------------------------------------------
\* Part III  the view handlers: serveDiff, _serveFile, getFiles
\* ------------------------------------------------------------------------
MaxViewUploads == 2   \* uploads of one behaviour of SpecView
ExampleID == 0        \* stands for the id "example"
UnknownID == 4        \* an id no archive of Arcs has

ViewIds == {ExampleID, UnknownID} \cup {ShortID(a) : a \in Arcs}
Routes == {"diff", "red", "green"}

\* The first WriteHeader or Write fixes the status of the response.
WriteHeader(w, sc) == IF w.code = 0 THEN [w EXCEPT !.code = sc] ELSE w
Write(w, b) ==
  [code |-> IF w.code = 0 THEN 200 ELSE w.code,
   header |-> w.header,
   body |-> Append(w.body, b)]
SetHeader(w, key, val) == [w EXCEPT !.header = Append(@, <<key, val>>)]

exampleFiles ==
  <<[Name |-> "main.go", Content |-> <<"example", 0>>],
    [Name |-> "server.go", Content |-> <<"example", 1>>]>>

\* tgzReadFiles: the entries of the tar stream inside the gzip stream, in
\* order.
tgzReadFiles(data) ==
  [i \in 1..Len(data.gzip) |->
     [Name |-> data.gzip[i].Name, Content |-> data.gzip[i].Data]]

\* What the wrapper e writes for an error that is not errUsage.
ViewError ==
  /\ vresp' = Write(WriteHeader(vresp, 500), "500 internal server error\n")
  /\ vpc' = "done"
  /\ vfiles' = vfiles

\* A GET arrives; raw tells whether serveDiff is to answer the plain diff
\* (a ".diff" suffix, or no browser); seen (history) is the set of archives
\* whose upload had been answered 302 by then.
ViewReceive ==
  /\ vpc = "idle"
  /\ \E route \in Routes, id \in ViewIds, raw \in BOOLEAN :
       /\ route # "diff" => ~raw
       /\ vreq' = [route |-> route, id |-> id, raw |-> raw,
                   seen |-> history.ok]
  /\ vpc' = "getFile"
  /\ UNCHANGED <<vfiles, vresp>>
  /\ UNCHANGED httpVars
  /\ UNCHANGED outsideView

\* getFiles up to f.IsZero(): the example, no record, or a record.
ViewGetFile ==
  /\ vpc = "getFile"
  /\ IF vreq.id = ExampleID
     THEN vfiles' = exampleFiles /\ vpc' = "serve"
     ELSE IF ~bucketHas(files, vreq.id)
          THEN vfiles' = <<>> /\ vpc' = "serve"
          ELSE vfiles' = vfiles /\ vpc' = "storageGet"
  /\ UNCHANGED <<vreq, vresp>>
  /\ UNCHANGED httpVars
  /\ UNCHANGED outsideView

\* s.DB.GetFile returns an error.
ViewGetFileFails ==
  /\ vpc = "getFile"
  /\ vreq.id # ExampleID
  /\ UploadFails
  /\ ViewError
  /\ UNCHANGED vreq
  /\ UNCHANGED <<files, stats, storage, week, hpc, hreq, hresp, reqLeft,
                 history, dbcall>>
  /\ UNCHANGED outsideView

\* data, err := s.Storage.Get(ctx, id) and the decoding of data.
ViewStorageGet ==
  /\ vpc = "storageGet"
  /\ IF bucketHas(storage, vreq.id)
     THEN IF Len(tgzReadFiles(Bytes(storage[vreq.id]))) = 2
          THEN /\ vfiles' = tgzReadFiles(Bytes(storage[vreq.id]))
               /\ vpc' = "serve"
               /\ vresp' = vresp
          ELSE ViewError
     ELSE ViewError
  /\ UNCHANGED vreq
  /\ UNCHANGED httpVars
  /\ UNCHANGED outsideView

\* s.Storage.Get returns an error that is not ErrNotFound.
ViewStorageGetFails ==
  /\ vpc = "storageGet"
  /\ UploadFails
  /\ ViewError
  /\ UNCHANGED vreq
  /\ UNCHANGED <<files, stats, storage, week, hpc, hreq, hresp, reqLeft,
                 history, dbcall>>
  /\ UNCHANGED outsideView

\* serveDiff after getFiles.
serveDiff(w) ==
  IF Len(vfiles) = 0
  THEN WriteHeader(Write(w, "not found"), 404)
  ELSE IF vreq.raw
       THEN Write(SetHeader(w, "Content-Type", "text/plain; charset=utf-8"),
                  [unified |-> TRUE, old |-> vfiles[1], new |-> vfiles[2]])
       ELSE Write(w, [unified |-> FALSE, old |-> vfiles[1], new |-> vfiles[2]])

\* _serveFile after getFiles.
serveFile(w, idx) ==
  IF Len(vfiles) = 0
  THEN Write(WriteHeader(w, 404), "not found")
  ELSE Write(SetHeader(SetHeader(w, "Content-Type",
                                 "text/plain; charset=utf-8"),
                       "Content-Disposition", vfiles[idx + 1].Name),
             vfiles[idx + 1].Content)

ViewServe ==
  /\ vpc = "serve"
  /\ vresp' = CASE vreq.route = "diff" -> serveDiff(vresp)
                [] vreq.route = "red" -> serveFile(vresp, 0)
                [] vreq.route = "green" -> serveFile(vresp, 1)
  /\ vpc' = "done"
  /\ UNCHANGED <<vreq, vfiles>>
  /\ UNCHANGED httpVars
  /\ UNCHANGED outsideView

\* The response is sent.
ViewFinish ==
  /\ vpc = "done"
  /\ vpc' = "idle"
  /\ vreq' = NoView
  /\ vfiles' = <<>>
  /\ vresp' = NewWriter
  /\ UNCHANGED httpVars
  /\ UNCHANGED outsideView

ViewInit ==
  CacheCold /\ DiffIdle /\ HttpStart(MaxViewUploads) /\ TimeIdle /\ ViewIdle /\ SpaceIdle

ViewNext ==
  \/ \E h \in Handlers :
       \/ ReceiveAny(h)
       \/ ParseForm(h)
       \/ HasFile(h)
       \/ HasFileFails(h)
       \/ AddAmounts(h)
       \/ AddAmountsFails(h)
       \/ StoragePut(h)
       \/ StoragePutFails(h)
       \/ PutFile(h)
       \/ PutFileFails(h)
       \/ Compensate(h)
       \/ CompensateFails(h)
       \/ Finish(h)
  \/ ViewReceive
  \/ ViewGetFile
  \/ ViewGetFileFails
  \/ ViewStorageGet
  \/ ViewStorageGetFails
  \/ ViewServe
  \/ ViewFinish

SpecView == ViewInit /\ [][ViewNext]_vars

\* The view handler found no upload record for an id that is not the
\* example, and answers.
ServesUnknown == vpc = "serve" /\ Len(vfiles) = 0 /\ vpc' = "done"

\* C15: a GET of /{id}, /{id}/red or /{id}/green for an id that has no
\* upload record (and is not the example) is answered with status 404 and
\* body 'not found', the status being the one fixed by the first WriteHeader
\* or Write of the handler.
C15_UnknownIs404 ==
  [][ServesUnknown =>
       vresp'.code = 404 /\ vresp'.body = <<"not found">>]_vars

\* The view handler found the upload record of its id, and Storage.Get
\* returns ErrNotFound.
ArchiveMissing ==
  /\ vpc = "storageGet" /\ vpc' = "done"
  /\ ~bucketHas(storage, vreq.id)
  /\ ufail' = ufail

\* C16: when the upload record of an id exists but Storage.Get returns
\* ErrNotFound, the view handlers answer 404.
C16_MissingArchiveIs404 ==
  [][ArchiveMissing => vresp'.code = 404]_vars

\* The form of a POST is one the usage forbids: it is no multipart form, or
\* has file parts but not exactly one red and one green file, or has no
\* file parts and not exactly one red and one green field.
UsageError(mf) ==
  \/ ~mf.parsed
  \/ /\ Len(mf.File.red) + Len(mf.File.green) + Len(mf.File.other) > 0
     /\ ~(Len(mf.File.red) = 1 /\ Len(mf.File.green) = 1)
  \/ /\ Len(mf.File.red) + Len(mf.File.green) + Len(mf.File.other) = 0
     /\ ~(Len(mf.Value.red) = 1 /\ Len(mf.Value.green) = 1)

EndsWith(body, tail) ==
  /\ Len(body) >= Len(tail)
  /\ SubSeq(body, Len(body) - Len(tail) + 1, Len(body)) = tail

\* C17: the handler of a POST with such a form answers 400 with the usage
\* string in the body at its first step, which ends it, and the step changes
\* neither the storage, nor the records, nor any usage counter.
C17_UsageNoTrace ==
  [][\A h \in Handlers :
       (hpc[h] = "form" /\ hpc'[h] # "form" /\ UsageError(hreq[h].form)) =>
         /\ hpc'[h] = "done"
         /\ hresp'[h].code = 400
         /\ EndsWith(hresp'[h].body, usageString)
         /\ UNCHANGED <<storage, files, stats>>]_vars

\* A POST of two red files and one green file is answered 400 by a server
\* that holds an upload.
C17_Witness ==
  \E h \in Handlers :
    /\ hpc[h] = "done" /\ hresp[h].code = 400
    /\ hreq[h].form.parsed
    /\ Len(hreq[h].form.File.red) = 2
    /\ files # <<>> /\ storage # <<>> /\ stats # <<>>

\* What the client of the archive arc uploaded: (redName, red, greenName,
\* green).
Uploaded(arc) ==
  IF arc.v = 1
  THEN [redName |-> "before.txt", red |-> <<"before", arc.id>>,
        greenName |-> "after.txt", green |-> <<"after", arc.id>>]
  ELSE [redName |-> "red", red |-> <<"before", arc.id, arc.v>>,
        greenName |-> "new.txt", green |-> <<"after", arc.id, arc.v>>]

Range(f) == {f[x] : x \in DOMAIN f}

\* The answer of a finished GET is the view of the upload of arc.
ViewOf(arc) ==
  LET up == Uploaded(arc)
  IN /\ vresp.code = 200
     /\ Len(vresp.body) = 1
     /\ CASE vreq.route = "red" ->
               /\ vresp.body[1] = up.red
               /\ <<"Content-Disposition", up.redName>> \in Range(vresp.header)
          [] vreq.route = "green" ->
               /\ vresp.body[1] = up.green
               /\ <<"Content-Disposition", up.greenName>> \in Range(vresp.header)
          [] vreq.route = "diff" ->
               /\ vresp.body[1].old = [Name |-> up.redName, Content |-> up.red]
               /\ vresp.body[1].new =
                    [Name |-> up.greenName, Content |-> up.green]

\* C18: a GET of /<id>, /<id>/red or /<id>/green that arrives after an
\* upload of (redName, red, greenName, green) was answered 302 with
\* Location <publicURL>/<id>, and meets no backend error, returns the diff of
\* red against green, the red bytes under redName, the green bytes under
\* greenName.
C18_RoundTrip ==
  [][(vpc # "done" /\ vpc' = "done" /\ ufail' = ufail) =>
       \A arc \in vreq.seen : ShortID(arc) = vreq.id => ViewOf(arc)']_vars

\* ------------------------------------------------------------------------
\* Specification of one diff call with a normalizer ('w', 'b') or none
\* ------------------------------------------------------------------------
MaxNormLines == 2
NormLineSet ==
  {<<"a">>, <<"a", " ">>, <<" ", "a">>, <<"a", " ", "b">>,
   <<"a", "\t", " ", "b">>, <<"a", "b">>}
NormFiles ==
  {[lines |-> l, nl |-> b] : l \in SeqsUpTo(NormLineSet, MaxNormLines),
                             b \in BOOLEAN}
    \ {[lines |-> <<>>, nl |-> FALSE]}

NormInputs ==
  /\ old \in NormFiles
  /\ new \in NormFiles
  /\ opts \in [Normal : {NilNormal, "w", "b"}, Context : 0..MaxContext]
  /\ u = [Hunks |-> <<>>, panic |-> FALSE]
  /\ diffpc = "call"
  /\ text = NoText

NormInit == NormInputs /\ CacheCold /\ HttpIdle /\ TimeIdle /\ ViewIdle /\ SpaceIdle

SpecNorm == NormInit /\ [][CallDiff]_vars

\* old and new are equal in comparison form: as many lines, and each pair
\* of corresponding lines equal after normalization.
SameInComparison(oldFile, newFile, normal) ==
  LET a == lines(oldFile, NilNormal).disp
      b == lines(newFile, NilNormal).disp
  IN /\ Len(a) = Len(b)
     /\ \A i \in 1..Len(a) :
          IF normal = NilNormal THEN a[i] = b[i]
          ELSE normalize(normal, a[i]) = normalize(normal, b[i])

\* C19: for no normalizer, 'w' and 'b' and every context, DiffWithOptions
\* returns, and returns zero hunks if and only if old and new are equal in
\* comparison form; byte-equal inputs give zero hunks.
C19_EmptyIffEqual ==
  diffpc = "done" =>
    /\ ~u.panic
    /\ (u.Hunks = <<>>) <=> SameInComparison(old, new, opts.Normal)
    /\ old = new => u.Hunks = <<>>

\* Files that differ in their bytes and are equal under 'b' give no hunk.
C19_Witness ==
  /\ diffpc = "done"
  /\ opts.Normal = "b"
  /\ old # new
  /\ Len(old.lines) = 2
  /\ u.Hunks = <<>>

\* ------------------------------------------------------------------------
\* C20: the counts of a hunk
\* ------------------------------------------------------------------------
\* The number of lines of a hunk whose first character is one of syms.
CountLines(h, syms) ==
  Cardinality({i \in 1..Len(h.Lines) : h.Lines[i].Value[1] \in syms})

\* C20: in every hunk returned by DiffWithOptions, CountOld is the number of
\* '-' and ' ' lines, CountNew is the number of '+' and ' ' lines, and the
\* hunk has at least one '-' or '+' line.
C20_HunkCounts ==
  diffpc = "done" /\ ~u.panic =>
    \A k \in 1..Len(u.Hunks) :
      /\ u.Hunks[k].CountOld = CountLines(u.Hunks[k], {"-", " "})
      /\ u.Hunks[k].CountNew = CountLines(u.Hunks[k], {"+", " "})
      /\ CountLines(u.Hunks[k], {"-", "+"}) >= 1

\* A diff of two hunks, the second with context, removed and added lines.
C20_Witness ==
  /\ diffpc = "done"
  /\ ~u.panic
  /\ Len(u.Hunks) = 2
  /\ CountLines(u.Hunks[2], {" "}) >= 1
  /\ CountLines(u.Hunks[2], {"-"}) >= 1
  /\ CountLines(u.Hunks[2], {"+"}) >= 1

\* ------------------------------------------------------------------------
\* C21: the equal lines between two hunks
\* ------------------------------------------------------------------------
\* The indexes of the '-' and '+' lines of a hunk.
Changed(h) == {i \in 1..Len(h.Lines) : Symbol(h.Lines[i]) # " "}
FirstChanged(h) == CHOOSE i \in Changed(h) : \A j \in Changed(h) : i <= j
LastChanged(h) == CHOOSE i \in Changed(h) : \A j \in Changed(h) : i >= j

\* The equal lines between the last changed line of g and the first changed
\* line of the hunk h that follows it: the context that ends g, the old lines
\* that no hunk shows, the context that begins h.
EqualRun(g, h) ==
  (Len(g.Lines) - LastChanged(g))
    + (OldStart(h) - (OldStart(g) + g.CountOld))
    + (FirstChanged(h) - 1)

\* C21: with context k, the run of equal lines between the last changed line
\* of a hunk and the first changed line of the next hunk has at least 2k+1
\* lines.
C21_HunkGap ==
  diffpc = "done" /\ ~u.panic =>
    \A i \in 1..(Len(u.Hunks) - 1) :
      /\ Changed(u.Hunks[i]) # {} /\ Changed(u.Hunks[i + 1]) # {}
      /\ EqualRun(u.Hunks[i], u.Hunks[i + 1]) >= 2 * opts.Context + 1

\* What the code does keep: two hunks are at least 2k equal lines apart, and
\* at least one.
HunkGapTwoK ==
  diffpc = "done" /\ ~u.panic =>
    \A i \in 1..(Len(u.Hunks) - 1) :
      /\ EqualRun(u.Hunks[i], u.Hunks[i + 1]) >= 2 * opts.Context
      /\ EqualRun(u.Hunks[i], u.Hunks[i + 1]) >= 1

\* ------------------------------------------------------------------------
\* C22: the grammar of the hunk header
\* ------------------------------------------------------------------------
\* '<line>[,<count>]' with the count left out exactly when it is 1.
RangeOf(line, count) ==
  IF count = 1 THEN Itoa(line) ELSE Itoa(line) \o <<",">> \o Itoa(count)

\* '@@ -<old>[,<oldCount>] +<new>[,<newCount>] @@'
HeaderGrammar(h) ==
  <<"@@ -">> \o RangeOf(h.LineOld, h.CountOld) \o <<" +">>
    \o RangeOf(h.LineNew, h.CountNew) \o <<" @@">>

\* The header lines of the text of Unified.String.
HeadersOf(str) == SelectSeq(str, LAMBDA l : l[1] = "@@ -")

\* C22: every hunk header of Unified.String and of hunk_header follows
\* '@@ -<old>[,<oldCount>] +<new>[,<newCount>] @@', the ',<count>' segment
\* left out exactly when the count is 1.
C22_HeaderGrammar ==
  diffpc = "shown" =>
    /\ Len(HeadersOf(text.String)) = Len(u.Hunks)
    /\ \A i \in 1..Len(u.Hunks) :
         /\ text.headers[i] = HeaderGrammar(u.Hunks[i])
         /\ HeadersOf(text.String)[i] = HeaderGrammar(u.Hunks[i])

\* What the code writes: both counts always, after a comma.
HeaderWithCounts ==
  diffpc = "shown" =>
    /\ Len(HeadersOf(text.String)) = Len(u.Hunks)
    /\ \A i \in 1..Len(u.Hunks) :
         LET h == u.Hunks[i]
             full == <<"@@ -">> \o Itoa(h.LineOld) \o <<",">> \o Itoa(h.CountOld)
                       \o <<" +">> \o Itoa(h.LineNew) \o <<",">>
                       \o Itoa(h.CountNew) \o <<" @@">>
         IN text.headers[i] = full /\ HeadersOf(text.String)[i] = full

\* ------------------------------------------------------------------------
\* C23: the line numbers of the hunk header
\* ------------------------------------------------------------------------
\* The lines of a hunk that count on a side: all but those of the symbol.
SideLines(h, other) == {i \in 1..Len(h.Lines) : Symbol(h.Lines[i]) # other}
FirstOf(S) == CHOOSE i \in S : \A j \in S : i <= j

\* The k-th (from 1) line that counts on a side of h is line start+k-1 of the
\* file ds of that side.
StartsAt(h, other, start, ds) ==
  LET S == SideLines(h, other)
      first == FirstOf(S)
  IN /\ start >= 1 /\ start <= Len(ds)
     /\ Content(h.Lines[first]) = ds[start]
     /\ (IF other = "+" THEN h.Lines[first].NumberX
         ELSE h.Lines[first].NumberY) = start

\* C23: LineOld is the 1-indexed old number of the hunk's first '-' or ' '
\* line when CountOld > 0 and 0 when CountOld = 0; LineNew likewise for '+'
\* and ' ' lines and CountNew.
C23_HeaderStart ==
  diffpc = "done" /\ ~u.panic =>
    \A k \in 1..Len(u.Hunks) :
      LET h == u.Hunks[k]
      IN /\ IF h.CountOld > 0
            THEN StartsAt(h, "+", h.LineOld, lines(old, opts.Normal).disp)
            ELSE h.LineOld = 0
         /\ IF h.CountNew > 0
            THEN StartsAt(h, "-", h.LineNew, lines(new, opts.Normal).disp)
            ELSE h.LineNew = 0

\* What the code keeps: a side with lines starts at its first line.
HeaderStartCounted ==
  diffpc = "done" /\ ~u.panic =>
    \A k \in 1..Len(u.Hunks) :
      LET h == u.Hunks[k]
      IN /\ h.CountOld > 0 =>
              StartsAt(h, "+", h.LineOld, lines(old, opts.Normal).disp)
         /\ h.CountNew > 0 =>
              StartsAt(h, "-", h.LineNew, lines(new, opts.Normal).disp)

\* ------------------------------------------------------------------------
\* C24: the diff engine is total
\* ------------------------------------------------------------------------
\* C24: for every pair of inputs, every context and every comparison mode,
\* DiffWithOptions returns: no index or slice expression of it is out of
\* range.
C24_Total == diffpc = "done" => ~u.panic

\* A call on an empty old file and a new file without a final newline, under
\* a normalizer, has returned hunks.
C24_Witness ==
  /\ diffpc = "done"
  /\ ~u.panic
  /\ old.lines = <<>>
  /\ ~new.nl
  /\ opts.Normal = "w"
  /\ opts.Context = MaxContext
  /\ Len(u.Hunks) = 1

\* ------------------------------------------------------------------------
\* Specification of ignoreSpaceChange on two lines
\* ------------------------------------------------------------------------
MaxChars == 4
SpaceChars == {"a", " ", "\t"}
\* The display lines of up to MaxChars characters: as they are, or the last
\* line of a file without final newline.
SpaceLines ==
  LET strs == SeqsUpTo(SpaceChars, MaxChars)
  IN strs \cup {Append(str, NoNewline) : str \in strs \ {<<>>}}

SpaceInputs ==
  /\ sin \in SpaceLines \X SpaceLines
  /\ sout = <<>>
  /\ spc = "call"

\* cmp[i] = normal(s), for the two lines, under 'b'
CallNormal ==
  /\ spc = "call"
  /\ sout' = <<normalize("b", sin[1]), normalize("b", sin[2])>>
  /\ spc' = "done"
  /\ UNCHANGED sin
  /\ UNCHANGED outsideSpace

SpaceInit ==
  SpaceInputs /\ CacheCold /\ DiffIdle /\ HttpIdle /\ TimeIdle /\ ViewIdle

SpecSpace == SpaceInit /\ [][CallNormal]_vars

RECURSIVE Collapse(_)
\* Every maximal run of white space other than newline, as one space.
Collapse(str) ==
  IF str = <<>> THEN <<>>
  ELSE IF isSpaceNotNewline(Head(str))
       THEN IF Len(str) > 1 /\ isSpaceNotNewline(str[2])
            THEN Collapse(Tail(str))
            ELSE <<" ">> \o Collapse(Tail(str))
       ELSE <<Head(str)>> \o Collapse(Tail(str))

\* A line right-trimmed, its runs of white space collapsed.
TrimmedCollapsed(line) == Collapse(TrimRight(Chars(line)))

\* C25: under 'b' two lines have equal comparison forms if and only if they
\* are equal after right-trimming white space and replacing every maximal run
\* of white space other than newline by one space; so a line with leading
\* white space differs from the same line without it, and lines of white
\* space only equal the empty line.
C25_SpaceChange ==
  spc = "done" =>
    /\ (sout[1] = sout[2])
         <=> (TrimmedCollapsed(sin[1]) = TrimmedCollapsed(sin[2]))
    /\ (/\ TrimRight(Chars(sin[1])) # <<>>
        /\ IsSpace(Head(sin[1]))
        /\ sin[2] = TrimLeft(sin[1])) => sout[1] # sout[2]
    /\ (TrimRight(Chars(sin[1])) = <<>> /\ sin[2] = <<>>) => sout[1] = sout[2]

\* Two lines that differ only in the length of an inner run of white space
\* and in trailing white space have the same comparison form.
C25_Witness ==
  /\ spc = "done"
  /\ sin[1] = <<"a", " ", "a">>
  /\ sin[2] = <<"a", "\t", " ", "a">>
  /\ sout[1] = sout[2]

\* ------------------------------------------------------------------------
\* C26: a record has its archive
\* ------------------------------------------------------------------------
\* C26: every short ID that has an upload record has its archive in
\* permanent storage, also when two uploads of the same content run
\* concurrently and one fails its record write and deletes the archive.
C26_RecordHasArchive ==
  \A id \in DOMAIN files : bucketHas(storage, id)

\* The half the code keeps: the handler that writes a record has had its own
\* Storage.Put return before.
PutAfterStored ==
  [][\A id \in DOMAIN files' \ DOMAIN files :
       \E h \in Handlers : hpc[h] = "putFile" /\ ShortID(hreq[h].arc) = id]_vars

\* ------------------------------------------------------------------------
\* C27: the eviction pass
\* ------------------------------------------------------------------------
\* The step of doClean from the sort to its end.
PassStep == cleaner.pc = "doCleanLoop" /\ (cleaner' # cleaner \/ panicked')

\* The ids whose descriptors the step removed from the map.
RemovedIds == {i \in Ids : objects[i] # 0 /\ objects'[i] = 0}

\* The ids the step handed to a new evict goroutine.
HandedIds ==
  IF Len(evictions') > Len(evictions)
  THEN Range(evictions'[Len(evictions')].els)
  ELSE {}

\* C27: every eviction pass completes, without a runtime failure and with
\* the write lock released, whether it removes none, some or all descriptors,
\* and hands to the background delete exactly the descriptors it removed.
C27_PassCompletes ==
  [][PassStep => /\ ~panicked'
                 /\ cleaner'.pc = "recv"
                 /\ HandedIds = RemovedIds]_vars

\* What holds of the passes that do complete: they removed every descriptor
\* of the map and handed all of them on.
PassRemovesAll ==
  [][PassStep /\ ~panicked' =>
       /\ HandedIds = RemovedIds
       /\ \A i \in Ids : objects'[i] = 0]_vars

\* ------------------------------------------------------------------------
\* C28: a failed update of the usage counter
\* ------------------------------------------------------------------------
\* AddAmountsAndCompare of handler h returns an error that is not
\* ErrLimitsExceeded.
CounterFails(h) ==
  hpc[h] = "addAmounts" /\ hpc'[h] # "addAmounts" /\ ufail' # ufail

\* C28: if the update of the usage counter fails with another error than
\* 'limits exceeded', the upload is aborted: the handler answers 500 and
\* goes on to neither Storage.Put nor PutFile.
C28_CounterErrorAborts ==
  [][\A h \in Handlers :
       CounterFails(h) => hpc'[h] = "done" /\ hresp'[h].code = 500]_vars

\* What the code does: the handler goes on to Storage.Put, nothing answered.
CounterErrorGoesOn ==
  [][\A h \in Handlers :
       CounterFails(h) => hpc'[h] = "storagePut" /\ hresp'[h] = hresp[h]]_vars

\* ------------------------------------------------------------------------
\* C29: no false NotFound
\* ------------------------------------------------------------------------
\* The Get of p has returned ErrNotFound although permanent held its id
\* from its beginning and no Del of the id overlapped it.
FalseNotFound(p) ==
  /\ pc[p] = "ret" /\ arg[p].op = "Get"
  /\ held[p]
  /\ ret[p].err = ErrNotFound

\* C29: a Get(id) during which permanent holds id throughout and no Del(id)
\* is concurrent never returns ErrNotFound.
C29_NoFalseNotFound == \A p \in Procs : ~FalseNotFound(p)

\* The same with no backend failure at all: the eviction pass alone.
NoFalseNotFoundNoFailure == nfail = 0 => \A p \in Procs : ~FalseNotFound(p)

\* The same with no eviction pass begun: the backend failures alone.
NoFalseNotFoundNoPass ==
  (cleaner.pc \in {"recv", "cacheSize"} /\ ~lastPass.done /\ ~panicked)
    => \A p \in Procs : ~FalseNotFound(p)

\* ------------------------------------------------------------------------
\* C30: eviction and descriptors in flight
\* ------------------------------------------------------------------------
\* The ids whose descriptor is in the map with its readiness unresolved.
Unresolved == {i \in Ids : objects[i] # 0 /\ ~ready[objects[i]]}

\* C30: an eviction pass never removes from the map a descriptor whose
\* readiness is still unresolved.
C30_KeepsUnresolved ==
  [][cleaner.pc = "doCleanLoop" =>
       \A i \in Unresolved : objects'[i] = objects[i]]_vars

\* Two callers are owners of a Get of one id together, no Put, no Del and
\* no backend failure having happened: permanent.Get is called a second time
\* while the first fetch is still under way.
TwoOwners ==
  \E p, q \in Procs :
    /\ p # q /\ Owner(p) /\ Owner(q) /\ arg[p].id = arg[q].id
    /\ nfail = 0
    /\ permanent = InitPermanent
    /\ \A r \in Procs : arg[r].op \in {"Get", "none"}

\* ------------------------------------------------------------------------
\* C31: the background delete and descriptors inserted since the pass
\* ------------------------------------------------------------------------
\* C31: between evict's test that an id is absent from the map and its
\* cache.Del of that id no descriptor of the id is inserted: the payload
\* evict deletes is never that of a descriptor of the map.
C31_EvictAtomic ==
  \A i \in DOMAIN evictions :
    evictions[i].del => objects[Head(evictions[i].els)] = 0

\* evict has found an id absent and is about to delete its payload, which a
\* Put wrote before the pass, while a Put of that id waits to insert its
\* descriptor.
C31_Witness ==
  \E i \in DOMAIN evictions, p \in Procs :
    /\ evictions[i].del
    /\ cache[Head(evictions[i].els)] # NoBytes
    /\ pc[p] = "putLock" /\ arg[p].id = Head(evictions[i].els)

\* C31 as stated: evict never deletes a payload written by a caller whose
\* descriptor was inserted after the pass of that evict.
C31_NeverDeletesLater ==
  \A i \in DOMAIN evictions :
    evictions[i].del => Head(evictions[i].els) \notin evictions[i].fresh

\* ------------------------------------------------------------------------
\* C32: the collection target does not wrap
\* ------------------------------------------------------------------------
\* C32: the size doClean sums under the write lock is at least maxSize, so
\* that sz - c.maxSize does not wrap, and a pass removes no descriptor from a
\* map whose sizes sum to less than maxSize.
C32_TargetNoWrap ==
  cleaner.pc = "doCleanLoop" =>
    /\ cleaner.sz >= maxSize
    /\ collectTarget(cleaner.sz) = cleaner.sz - maxSize + maxSize \div 20

\* ------------------------------------------------------------------------
\* C33: oldest first, and no more than the target asks for
\* ------------------------------------------------------------------------
\* The place of descriptor h in the order of lastAccess: 0 for the zero
\* time, then the place in lru.
Rank(h) ==
  IF \E k \in DOMAIN lru : lru[k] = h
  THEN CHOOSE k \in DOMAIN lru : lru[k] = h
  ELSE 0

RECURSIVE SizeOf(_)
\* The bytes of a set of descriptors.
SizeOf(hs) ==
  IF hs = {} THEN 0
  ELSE LET h == CHOOSE g \in hs : TRUE IN size[h] + SizeOf(hs \ {h})

\* C33: a pass removes the descriptors oldest first and stops as soon as the
\* removed bytes reach the target: no removed descriptor was accessed later
\* than a retained one, a descriptor is retained only once the target is
\* reached, and without the last descriptor removed the removed bytes are
\* below the target.
C33_OldestFirst ==
  [][PassStep =>
       LET rem == {objects[i] : i \in RemovedIds}
           kept == InMap(objects')
           target == collectTarget(cleaner.sz)
       IN /\ \A r \in rem, k \in kept : Rank(r) <= Rank(k)
          /\ kept # {} => SizeOf(rem) >= target
          /\ rem # {} =>
               \E last \in rem :
                 /\ \A r \in rem : Rank(r) <= Rank(last)
                 /\ SizeOf(rem \ {last}) < target]_vars

\* A pass has removed a stored descriptor, whose payload is still in the
\* cache backend, and has retained another one.
C33_Witness ==
  /\ panicked
  /\ \E i, j \in Ids :
       /\ objects[i] = 0 /\ cache[i] # NoBytes
       /\ objects[j] # 0 /\ size[objects[j]] > 0

\* ------------------------------------------------------------------------
\* C34: the reset instant is where the period key changes
\* ------------------------------------------------------------------------
\* Period: fmt.Sprintf("%d/%d", now.Year(), weekNum) of a day, as the pair.
PeriodKey(year, yday) == <<year, weekNum(yday)>>

\* The day after day yday of year, as [year, yday].
DayAfter(t) ==
  IF t.yday < daysOf(t.year) THEN [year |-> t.year, yday |-> t.yday + 1]
  ELSE [year |-> t.year + 1, yday |-> 1]

RECURSIVE FirstChange(_, _)
\* The first day from t on whose period key is not key.
FirstChange(t, key) ==
  IF PeriodKey(t.year, t.yday) # key THEN t ELSE FirstChange(DayAfter(t), key)

\* C34: the reset instant of a 429 answer is midnight of the first day whose
\* period key differs from the key of the day of the rejection: the key is
\* the same from the rejection up to that instant and different at it.
C34_ResetIsKeyChange ==
  reset # NoTime =>
    LET first == FirstChange(now, PeriodKey(now.year, now.yday))
    IN reset.year = first.year /\ YearDay(reset) = first.yday

\* What the code gives on the days of periods 0 to 51: the reset instant is
\* where the key changes.
ResetIsKeyChangeBeforeLast ==
  reset # NoTime /\ weekNum(now.yday) < 52 =>
    LET first == FirstChange(now, PeriodKey(now.year, now.yday))
    IN reset.year = first.year /\ YearDay(reset) = first.yday

\* ------------------------------------------------------------------------
\* C35: uploads that fail and the usage counter
\* ------------------------------------------------------------------------
\* num_calls of the stored counter of a client, 0 without a counter.
NumCallsOf(client) ==
  IF bucketHas(stats, client) THEN stats[client].nc ELSE 0

RECURSIVE PutsOf(_)
\* How many uploads wrote a record for one of ids (history): the uploads of
\* new content answered 302.
PutsOf(ids) ==
  IF ids = {} THEN 0
  ELSE LET i == CHOOSE j \in ids : TRUE IN Puts(i) + PutsOf(ids \ {i})

\* Handler h is answered 500 because Storage.Put or PutFile failed, with no
\* other request under way.
FailedStore(h) ==
  /\ hpc[h] \in {"storagePut", "compensate"}
  /\ hpc'[h] = "done" /\ hresp'[h].code = 500
  /\ \A g \in Handlers \ {h} : hpc[g] = "idle"

\* C35: an upload that is answered with an error because Storage.Put or the
\* record write failed has not consumed quota: in the first period, once it
\* is answered, num_calls of its client is the number of uploads of new
\* content answered 302.
C35_FailedNotCounted ==
  [][\A h \in Handlers :
       FailedStore(h) /\ week = 0 =>
         NumCallsOf(hreq[h].client)' = PutsOf({a.id : a \in Arcs})']_vars

\* ------------------------------------------------------------------------
\* C36: the descriptors account for the cache backend
\* ------------------------------------------------------------------------
\* No Get, Put or Del is under way, no pass, and no evict goroutine is left.
AtRest ==
  /\ \A p \in Procs : pc[p] = "idle"
  /\ cleaner.pc \in {"recv", "cacheSize"}
  /\ evictions = <<>>

\* The ids with a resolved descriptor of size > 0 in the map.
Stored ==
  {i \in Ids : objects[i] # 0 /\ ready[objects[i]] /\ size[objects[i]] > 0}

\* C36: at rest the ids with a payload in the cache backend are the ids with
\* a resolved descriptor of size > 0, and the sizes of the descriptors sum to
\* the bytes the cache backend holds.
C36_Accounting ==
  AtRest =>
    /\ {i \in Ids : cache[i] # NoBytes} = Stored
    /\ cacheSize = SumSeq([k \in 1..Len(IdOrder) |-> Len(cache[IdOrder[k]])])

\* The same for the runs without a failing backend call and without the
\* runtime failure of a pass.
AccountingNoFailure ==
  AtRest /\ nfail = 0 /\ ~panicked =>
    {i \in Ids : cache[i] # NoBytes} = Stored

\* ------------------------------------------------------------------------
\* C37: no lost eviction wake-up
\* ------------------------------------------------------------------------
\* Every call has returned, the sizes sum to the cap or more, the channel
\* c.cleaning is empty and the cleaner waits in 'for range c.cleaning'.
OverCapAsleep ==
  /\ \A p \in Procs : pc[p] = "idle"
  /\ ~panicked
  /\ cacheSize >= maxSize
  /\ ~cleaning
  /\ cleaner.pc = "recv"

\* C37: no Get that returns bytes leaves a state in which every Put and Get
\* has finished, the sum of the sizes is at or above the cap, the signal
\* channel is empty and the cleaner is blocked on it.
C37_NoLostWakeup ==
  [][(\E p \in Procs : /\ pc[p] = "ret" /\ pc'[p] = "idle"
                       /\ arg[p].op = "Get" /\ ret[p].err = Nil)
       => ~OverCapAsleep']_vars

\* The cached storage started over an empty cache backend.
SpecCold == FairInit /\ [][Next]_vars

\* From a cold start no state is over the cap and asleep.
NoLostWakeupCold == ~OverCapAsleep

\* ------------------------------------------------------------------------
\* C38: tgs, the longest common subsequence of the anchor lines
\* ------------------------------------------------------------------------
\* The lines tgs is given by the call of the state.
TgsX == lines(old, opts.Normal).cmp
TgsY == lines(new, opts.Normal).cmp

\* The anchors: the pairs <<i, j>> (counted from 0) of a line that occurs
\* exactly once in x, at i, and exactly once in y, at j.
Anchors(x, y) ==
  {pr \in (0..(Len(x) - 1)) \X (0..(Len(y) - 1)) :
     /\ x[pr[1] + 1] = y[pr[2] + 1]
     /\ Cardinality({i \in DOMAIN x : x[i] = x[pr[1] + 1]}) = 1
     /\ Cardinality({j \in DOMAIN y : y[j] = y[pr[2] + 1]}) = 1}

\* The pairs of S are in the same order in x and in y.
Chain(S) ==
  \A pr, qr \in S : pr # qr => (pr[1] < qr[1] <=> pr[2] < qr[2])

\* C38: tgs returns the sentinel {0,0}, then pairs of anchors that increase
\* strictly in both indexes, then the sentinel {len(x),len(y)}; no common
\* subsequence of the anchors is longer.
C38_LongestAnchors ==
  diffpc # "call" /\ old # new =>
    LET x == TgsX
        y == TgsY
        sq == tgs(x, y)
        n == Len(sq)
    IN /\ n >= 2
       /\ sq[1] = [x |-> 0, y |-> 0]
       /\ sq[n] = [x |-> Len(x), y |-> Len(y)]
       /\ \A k \in 2..(n - 1) : <<sq[k].x, sq[k].y>> \in Anchors(x, y)
       /\ \A k \in 2..(n - 2) : sq[k].x < sq[k + 1].x /\ sq[k].y < sq[k + 1].y
       /\ \A S \in SUBSET Anchors(x, y) : Chain(S) => Cardinality(S) <= n - 2

\* A call on files with three anchors that cross: the longest common
\* subsequence has two of them.
C38_Witness ==
  /\ diffpc = "done" /\ old # new
  /\ Cardinality(Anchors(TgsX, TgsY)) = 3
  /\ Len(tgs(TgsX, TgsY)) = 4

\* ------------------------------------------------------------------------
\* C39: the line numbers of the hunk lines
\* ------------------------------------------------------------------------
\* The numbers a side of the hunk lines ls carries, in order, -1 left out.
NumbersX(ls) ==
  LET ks == SelectSeq([k \in 1..Len(ls) |-> k], LAMBDA k : Symbol(ls[k]) # "+")
  IN [k \in 1..Len(ks) |-> ls[ks[k]].NumberX]
NumbersY(ls) ==
  LET ks == SelectSeq([k \in 1..Len(ls) |-> k], LAMBDA k : Symbol(ls[k]) # "-")
  IN [k \in 1..Len(ks) |-> ls[ks[k]].NumberY]

\* Where a hunk starts in new, counted from 0.
NewStart(h) == IF h.CountNew > 0 THEN h.LineNew - 1 ELSE h.LineNew

\* C39: a '-' or ' ' line carries in NumberX the 1-indexed position in old of
\* the line it shows, a '+' or ' ' line carries in NumberY the position in
\* new (for a ' ' line, of the line that compares equal to the old one);
\* '+' lines have NumberX = -1 and '-' lines NumberY = -1; the numbers of a
\* side are consecutive within a hunk and increase strictly from one hunk to
\* the next.
C39_LineNumbers ==
  diffpc # "call" /\ ~u.panic =>
    LET xs == lines(old, opts.Normal).disp
        ys == lines(new, opts.Normal).disp
        xc == lines(old, opts.Normal).cmp
        yc == lines(new, opts.Normal).cmp
    IN /\ \A i \in DOMAIN u.Hunks :
            LET h == u.Hunks[i]
                nx == NumbersX(h.Lines)
                ny == NumbersY(h.Lines)
            IN /\ \A k \in DOMAIN h.Lines :
                    LET l == h.Lines[k]
                    IN /\ IF Symbol(l) = "+" THEN l.NumberX = -1
                          ELSE /\ l.NumberX \in 1..Len(xs)
                               /\ xs[l.NumberX] = Content(l)
                       /\ IF Symbol(l) = "-" THEN l.NumberY = -1
                          ELSE /\ l.NumberY \in 1..Len(ys)
                               /\ Symbol(l) = "+" => ys[l.NumberY] = Content(l)
                               /\ Symbol(l) = " " =>
                                    yc[l.NumberY] = xc[l.NumberX]
               /\ \A k \in DOMAIN nx : nx[k] = OldStart(h) + k
               /\ \A k \in DOMAIN ny : ny[k] = NewStart(h) + k
       /\ \A i, j \in DOMAIN u.Hunks :
            i < j =>
              /\ \A a \in Range(NumbersX(u.Hunks[i].Lines)),
                    b \in Range(NumbersX(u.Hunks[j].Lines)) : a < b
              /\ \A a \in Range(NumbersY(u.Hunks[i].Lines)),
                    b \in Range(NumbersY(u.Hunks[j].Lines)) : a < b

\* A diff of two hunks, the second of which deletes, inserts and keeps a
\* line.
C39_Witness ==
  /\ diffpc = "done" /\ ~u.panic /\ Len(u.Hunks) >= 2
  /\ \A sym \in {"-", "+", " "} :
       \E k \in DOMAIN u.Hunks[2].Lines : Symbol(u.Hunks[2].Lines[k]) = sym

\* ------------------------------------------------------------------------
\* C40: the paddings of the split view
\* ------------------------------------------------------------------------
\* The sum of the padding sizes of a column.
RECURSIVE PadSum(_)
PadSum(pads) ==
  IF DOMAIN pads = {} THEN 0
  ELSE LET k == CHOOSE j \in DOMAIN pads : TRUE
       IN pads[k] + PadSum([j \in DOMAIN pads \ {k} |-> pads[j]])

\* The maximal runs of changed lines of ls, as pairs <<a, b>> of the indexes
\* (counted from 0) of their first and last line.
Runs(ls) ==
  {r \in (0..(Len(ls) - 1)) \X (0..(Len(ls) - 1)) :
     /\ r[1] <= r[2]
     /\ \A k \in r[1]..r[2] : Symbol(ls[k + 1]) # " "
     /\ r[1] > 0 => Symbol(ls[r[1]]) = " "
     /\ r[2] + 1 < Len(ls) => Symbol(ls[r[2] + 2]) = " "}

\* C40: for every hunk of the diff engine SplitViewPaddings gives both
\* columns of the split view the same height (lines that are not inserts
\* plus the old-column paddings, lines that are not deletes plus the
\* new-column paddings), and every maximal run of changed lines has exactly
\* one padding, of size |ins - del|, on its shorter side, or none when
\* ins = del; there is no other padding.
C40_SplitViewEven ==
  diffpc = "shown" =>
    \A i \in DOMAIN u.Hunks :
      LET h == u.Hunks[i]
          ls == h.Lines
          red == text.paddings[i].Red
          green == text.paddings[i].Green
      IN /\ ~text.paddings[i].hangs
         /\ CountLines(h, {"-", " "}) + PadSum(red)
              = CountLines(h, {"+", " "}) + PadSum(green)
         /\ \A r \in Runs(ls) :
              LET ins == Cardinality({k \in r[1]..r[2] : Symbol(ls[k + 1]) = "+"})
                  del == Cardinality({k \in r[1]..r[2] : Symbol(ls[k + 1]) = "-"})
                  inRed == DOMAIN red \cap (r[1]..r[2])
                  inGreen == DOMAIN green \cap (r[1]..r[2])
              IN CASE ins > del ->
                        /\ inGreen = {} /\ Cardinality(inRed) = 1
                        /\ \A k \in inRed : red[k] = ins - del
                   [] del > ins ->
                        /\ inRed = {} /\ Cardinality(inGreen) = 1
                        /\ \A k \in inGreen : green[k] = del - ins
                   [] OTHER -> inRed = {} /\ inGreen = {}
         /\ \A k \in DOMAIN red \cup DOMAIN green :
              \E r \in Runs(ls) : k \in r[1]..r[2]

\* A shown hunk with two runs of changed lines, one padded on the old
\* column and one on the new.
C40_Witness ==
  /\ diffpc = "shown"
  /\ \E i \in DOMAIN u.Hunks :
       /\ Cardinality(Runs(u.Hunks[i].Lines)) >= 2
       /\ DOMAIN text.paddings[i].Red # {}
       /\ DOMAIN text.paddings[i].Green # {}

====
